---- MODULE Spec2Model ----
(***************************************************************************)
(* A model of the cosmic-crunchers server core: the per-room               *)
(* GameSimulation (simulation.rs), its ECS components (components.rs) and  *)
(* the InputBuffer.                                                        *)
(*                                                                         *)
(* Numbers.                                                                *)
(*  - u32 values (sequence numbers, snapshot_sequence) keep their 32-bit   *)
(*    width.  TLC's integers are 32-bit signed, so a u32 value v is stored *)
(*    as v - 2^31 (order preserving); U32(n) converts a small literal.     *)
(*  - f32 durations (dt, Lifetime.remaining) are fixed-point in units of   *)
(*    2^-27 s and are rounded to 24 significant bits as f32 arithmetic     *)
(*    rounds them.                                                         *)
(*  - simulation time (f64, tick * (1/15)) is held as a whole number of    *)
(*    ticks; it is compared with f32 constants widened to f64 exactly.     *)
(*  - positions are in 1/1000 px, velocities in 1/1000 px/s, angles in     *)
(*    1/1000 rad; NaN is one reserved code.                                *)
(***************************************************************************)
EXTENDS Integers, Sequences, FiniteSets, TLC

VARIABLES
    sim,              \* the GameSimulation of one room
    result,           \* <<what step returned>> if the latest call was step, else <<>>
    fire_log,         \* history: per player id, the simulation times (ticks) at which a
                      \* projectile owned by it appeared
    age,              \* history: per live projectile, the steps run since the step that spawned it
    gone,             \* history: the projectiles a step's lifetime system despawned
    fire_held,        \* history: per player id, whether every step since its ship was
                      \* spawned found an accepted frame with primary_fire set
    added,            \* history: per player id, the frames add_player_input gave its
                      \* ship since the latest step, in arrival order
    drained,          \* <<per player id, what the latest call, a step, read from the
                      \* ship's buffer>> if the latest call was step, else <<>>
    spawned,          \* history: per player id, <<where its live ship was spawned>>
    ib,               \* a ship's InputBuffer, exercised alone
    ib_panicked,      \* an arithmetic-overflow panic unwound out of the InputBuffer
    overflow_checks,  \* the build: TRUE = overflow panics (debug), FALSE = wraps (release)
    rooms,            \* the room directory (SharedRooms): room code -> Room
    clock,            \* Instant::now(), in seconds
    conn,             \* per connection (its player id): the state of its receive task
                      \* and, as history, the latest reply to a Join and the time of
                      \* the latest client message
    task,             \* per room code: the state of the simulation task of that room
    event,            \* history: what the latest operation on the directory was and
                      \* which players and rooms it removed
    empty_since,      \* history: per room code, when the room was created or last
                      \* became empty
    lock,             \* the directory's Mutex: <<>> or <<the process that holds it>>
    pc,               \* per process, where it is inside an operation on the directory
    sent              \* per room code, the sequence numbers of the Snapshot messages
                      \* the room's task has handed to its players' channels

vars == <<sim, result, fire_log, age, gone, fire_held, added, drained, spawned,
          ib, ib_panicked, overflow_checks,
          rooms, clock, conn, task, event, empty_since, lock, pc, sent>>

simVars == <<sim, result, fire_log, age, gone, fire_held, added, drained, spawned>>

bufVars == <<ib, ib_panicked, overflow_checks>>

roomVars == <<rooms, clock, conn, task, event, empty_since, lock, pc, sent>>

-----------------------------------------------------------------------------
(* u32 arithmetic                                                          *)

\* The largest u32, 2^32 - 1, in the stored form v - 2^31.
U32Max == 2147483647

\* The stored form of the small u32 literal n.
U32(n) == (n - 2147483647) - 1

\* a + 1 on u32 as a release build computes it (wrapping).
U32WrappingInc(a) == IF a = U32Max THEN U32(0) ELSE a + 1

\* Whether a + 1 overflows u32.
U32IncOverflows(a) == a = U32Max

-----------------------------------------------------------------------------
(* InputData and InputBuffer (components.rs)                               *)

\* f32 NaN, as one reserved code outside every finite value of the model.
NaN == 1999999999

IsNaN(a) == a = NaN

\* InputData: thrust and turn are f32, in thousandths (or NaN).
InputData(sequence, thrust, turn, primary_fire, secondary_fire) ==
    [sequence |-> sequence, timestamp |-> 0, thrust |-> thrust, turn |-> turn,
     primary_fire |-> primary_fire, secondary_fire |-> secondary_fire]

max_buffer_size == 60

\* InputBuffer::default
InputBufferDefault == [buffer |-> <<>>, last_processed_sequence |-> U32(0)]

RECURSIVE InsertPos(_, _, _)
\* The scan of add_input from the tail: i is the 1-based position under
\* inspection, the result the number of frames that stay in front.
InsertPos(buffer, sequence, i) ==
    IF i = 0 THEN 0
    ELSE IF buffer[i].sequence < sequence THEN i
    ELSE InsertPos(buffer, sequence, i - 1)

RECURSIVE TrimFront(_)
TrimFront(buffer) ==
    IF Len(buffer) > max_buffer_size THEN TrimFront(Tail(buffer)) ELSE buffer

\* A plausible slip of add_input: the trim is left out.
add_input_no_trim(b, input) ==
    LET p == InsertPos(b.buffer, input.sequence, Len(b.buffer))
    IN [b EXCEPT !.buffer = SubSeq(@, 1, p) \o <<input>> \o SubSeq(@, p + 1, Len(@))]

\* A plausible slip of add_input: the frame is pushed at the back, wherever
\* its sequence number belongs.
add_input_push_back(b, input) ==
    [b EXCEPT !.buffer = TrimFront(Append(@, input))]

\* InputBuffer::add_input
add_input(b, input) ==
    LET p == InsertPos(b.buffer, input.sequence, Len(b.buffer))
        inserted == SubSeq(b.buffer, 1, p) \o <<input>> \o SubSeq(b.buffer, p + 1, Len(b.buffer))
    IN [b EXCEPT !.buffer = TrimFront(inserted)]

\* InputBuffer::get_next_input, where last_processed_sequence + 1 does not
\* overflow or wraps: [b |-> the buffer after the call, out |-> <<>> or <<frame>>].
get_next_input(b) ==
    IF Len(b.buffer) > 0
       /\ Head(b.buffer).sequence = U32WrappingInc(b.last_processed_sequence)
    THEN [b |-> [buffer |-> Tail(b.buffer),
                 last_processed_sequence |-> Head(b.buffer).sequence],
          out |-> <<Head(b.buffer)>>]
    ELSE [b |-> b, out |-> <<>>]

\* Whether get_next_input panics: the addition is evaluated only when the
\* buffer has a front, and panics when it overflows in a build that checks.
get_next_input_panics(b, checks) ==
    checks /\ Len(b.buffer) > 0 /\ U32IncOverflows(b.last_processed_sequence)

RECURSIVE clear_old_inputs(_, _)
\* InputBuffer::clear_old_inputs
clear_old_inputs(b, min_sequence) ==
    IF Len(b.buffer) > 0 /\ Head(b.buffer).sequence < min_sequence
    THEN clear_old_inputs([b EXCEPT !.buffer = Tail(@)], min_sequence)
    ELSE b

RECURSIVE Drain(_, _, _)
\* The while-let loop of prepare_inputs over one buffer:
\* [b, latest_input (<<>> or <<frame>>), discarded_count].
Drain(b, latest_input, discarded_count) ==
    LET r == get_next_input(b)
    IN IF r.out = <<>>
       THEN [b |-> b, latest_input |-> latest_input, discarded_count |-> discarded_count]
       ELSE Drain(r.b, r.out,
                  IF latest_input # <<>> THEN discarded_count + 1 ELSE discarded_count)

RECURSIVE DrainPanics(_, _)
\* Whether the loop of prepare_inputs over one buffer panics.
DrainPanics(b, checks) ==
    IF get_next_input_panics(b, checks) THEN TRUE
    ELSE LET r == get_next_input(b)
         IN IF r.out = <<>> THEN FALSE ELSE DrainPanics(r.b, checks)

\* prepare_inputs for one ship's buffer: drain, then keep the latest frame only.
prepare_buffer(b) ==
    LET d == Drain(b, <<>>, 0)
    IN IF d.latest_input # <<>>
       THEN [d.b EXCEPT !.buffer = d.latest_input]
       ELSE d.b

\* A plausible slip of update_movement: the buffer is not cleared.
clear_buffer_forgotten(b) == b

\* update_movement's last statement for a ship with a body.
clear_buffer(b) == [b EXCEPT !.buffer = <<>>]

-----------------------------------------------------------------------------
(* f32 / f64 arithmetic                                                    *)

PosInf == 1999999998

NegInf == -1999999998

IsInf(a) == a = PosInf \/ a = NegInf

Abs(a) == IF a < 0 THEN -a ELSE a

Sign(a) == IF a < 0 THEN -1 ELSE IF a > 0 THEN 1 ELSE 0

\* Division truncating toward zero.
Quot(a, b) == IF a < 0 THEN -((-a) \div b) ELSE a \div b

FNeg(a) == IF IsNaN(a) THEN NaN ELSE -a

\* a + b, IEEE: NaN is absorbing, inf + (-inf) is NaN.
FAdd(a, b) ==
    IF IsNaN(a) \/ IsNaN(b) THEN NaN
    ELSE IF IsInf(a) /\ IsInf(b) THEN (IF a = b THEN a ELSE NaN)
    ELSE IF IsInf(a) THEN a
    ELSE IF IsInf(b) THEN b
    ELSE a + b

\* a * n / d for a float a and finite whole numbers n and d > 0; 0 * inf is NaN.
FMulQ(a, n, d) ==
    IF IsNaN(a) THEN NaN
    ELSE IF IsInf(a) THEN (IF n = 0 THEN NaN ELSE IF n > 0 THEN a ELSE -a)
    ELSE Quot(a * n, d)

\* a * b / 1000000 for a finite a in thousandths and a float b in thousandths.
FMulMilli(a, b) ==
    IF IsNaN(b) THEN NaN
    ELSE IF IsInf(b) THEN (IF a = 0 THEN NaN ELSE IF a > 0 THEN b ELSE -b)
    ELSE Quot(a * b, 1000000)

\* a < b and a > b on floats: every comparison with NaN is false.
FLt(a, b) == ~IsNaN(a) /\ ~IsNaN(b) /\ a < b

FGt(a, b) == ~IsNaN(a) /\ ~IsNaN(b) /\ a > b

\* a != 0.0
FNonZero(a) == a # 0

RECURSIVE F32Quantum(_, _)
\* The spacing of f32 values around the magnitude a (in units of 2^-27):
\* the least power of two q with a < 2^24 * q.
F32Quantum(a, q) == IF a \div q >= 16777216 THEN F32Quantum(a, 2 * q) ELSE q

\* Round a magnitude to 24 significant bits, ties to even.
F32RoundMag(a) ==
    LET q == F32Quantum(a, 1)
        lo == (a \div q) * q
        rem == a - lo
    IN IF 2 * rem < q THEN lo
       ELSE IF 2 * rem > q THEN lo + q
       ELSE IF (lo \div q) % 2 = 0 THEN lo ELSE lo + q

\* a - b on f32 durations held in units of 2^-27 s.
F32Sub(a, b) ==
    LET x == a - b
    IN IF x < 0 THEN -F32RoundMag(-x) ELSE F32RoundMag(x)

\* The f32 literal 1.0 / 15.0 (0x3D888889) in units of 2^-27 s.
DtTick == 8947849

\* 2.0 s in units of 2^-27 s.
DtLong == 268435456

\* A duration in units of 2^-27 s, in whole milliseconds (for the integrator).
Millis(dt) == ((dt \div 1024) * 1000 + 65536) \div 131072

\* SIM_TICK_RATE
SIM_TICK_RATE == 15

\* `elapsed >= c` where elapsed is the f64 difference of two simulation times
\* (ticks * (1.0 / 15.0)) and c an f32 constant widened to f64, c = num / den
\* exactly: ticks / 15 >= num / den.  The f64 rounding of tick * (1/15) is
\* below 1e-15 relative and never decides the comparison for the constants
\* of the program (0.2f32 = 13421773 / 2^26 lies 3e-9 above 3 ticks; 3.0 is
\* met exactly by 45 * (1.0 / 15.0) = 3.0).
ElapsedAtLeast(ticks, c) == ticks >= (SIM_TICK_RATE * c.num + c.den - 1) \div c.den

\* sin, in thousandths, of an angle in thousandths of a radian (Bhaskara's
\* approximation; exact at 0 and pi).
SinPos(x) ==
    LET p == (x * (3142 - x)) \div 1000
        d == 49361 - 4 * p
    IN (16000 * p + d \div 2) \div d

Sin1000(r) ==
    LET x == r % 6284
    IN IF x <= 3142 THEN SinPos(x) ELSE -SinPos(x - 3142)

Cos1000(r) == Sin1000(r + 1571)

\* The principal value in (-pi, pi] of an angle (UnitComplex::angle, atan2).
NormAngle(r) == LET x == r % 6284 IN IF x > 3142 THEN x - 6284 ELSE x

-----------------------------------------------------------------------------
(* Maps (HashMap)                                                          *)

EmptyMap == [k \in {} |-> 0]

MapInsert(m, k, v) == [x \in DOMAIN m \cup {k} |-> IF x = k THEN v ELSE m[x]]

MapRemove(m, k) == [x \in DOMAIN m \ {k} |-> m[x]]

Last(q) == q[Len(q)]

Front(q) == SubSeq(q, 1, Len(q) - 1)

-----------------------------------------------------------------------------
(* Components (components.rs)                                              *)

\* Health::default, in thousandths; shield_recharge_delay is 3.0 s and
\* last_damage_time is simulation time (in ticks).
HealthDefault ==
    [current |-> 100000, max |-> 100000, armor |-> 0,
     shield |-> 50000, shield_max |-> 50000,
     shield_recharge_rate |-> 10000,
     shield_recharge_delay |-> [num |-> 3, den |-> 1],
     last_damage_time |-> 0]

\* Ship::default (mass 1.0, size 8.0)
ShipDefault ==
    [thrust_power |-> 500, turn_rate |-> 3, max_speed |-> 200, mass |-> 1, size |-> 8]

\* The mass of a ship's body: a ball of radius 8.0 and density 1.0, pi * 64.
ShipBodyMass == 201

\* The angular inertia of that ball, mass * radius^2 / 2.
ShipBodyInertia == 6434

\* The Weapon spawn_player_ship gives a ship: RapidFire, last_fire_time 0.0,
\* cooldown 0.2f32 = 13421773 / 2^26.
WeaponDefault ==
    [weapon_type |-> [tag |-> "RapidFire", rate |-> 5, damage |-> 25, speed |-> 300],
     last_fire_time |-> 0,
     cooldown |-> [num |-> 13421773, den |-> 67108864]]

\* Lifetime { remaining: 3.0 } in units of 2^-27 s.
ProjectileLifetime == 402653184

\* GameBounds::default, in thousandths of a pixel.
GameBoundsDefault == [width |-> 1920000, height |-> 1080000, center |-> <<0, 0>>]

-----------------------------------------------------------------------------
(* GameSimulation: the entity store, the physics world and the two maps    *)

\* GameSimulation::new.  world/meta/pending are the hecs World (components of
\* the live ids, the generation of every id handed out so far, the freed ids);
\* bodies/body_gen/body_free are the rapier RigidBodySet likewise.
GameSimulationNew ==
    [world |-> EmptyMap, meta |-> <<>>, pending |-> <<>>,
     bodies |-> EmptyMap, body_gen |-> <<>>, body_free |-> <<>>,
     entity_to_body |-> EmptyMap, body_to_entity |-> EmptyMap,
     tick |-> 0, snapshot_sequence |-> U32(0),
     bounds |-> GameBoundsDefault]

\* An Entity is <<id, generation>>; World::contains.
Contains(s, e) ==
    /\ e[1] \in DOMAIN s.world
    /\ s.meta[e[1] + 1] = e[2]

\* The live entity with the given id.
EntityOf(s, id) == <<id, s.meta[id + 1]>>

\* The Entity that World::spawn returns next: the id freed last, else a new id.
NextEntity(s) ==
    IF Len(s.pending) > 0
    THEN <<Last(s.pending), s.meta[Last(s.pending) + 1]>>
    ELSE <<Len(s.meta), 1>>

\* World::spawn with the given components.
WorldSpawn(s, components) ==
    LET e == NextEntity(s)
    IN [s EXCEPT !.world = MapInsert(@, e[1], components),
                 !.meta = IF Len(s.pending) > 0 THEN @ ELSE Append(@, 1),
                 !.pending = IF Len(@) > 0 THEN Front(@) ELSE @]

\* World::despawn of a live entity: the id is freed and its generation advances.
WorldDespawn(s, e) ==
    [s EXCEPT !.world = MapRemove(@, e[1]),
              !.meta[e[1] + 1] = @ + 1,
              !.pending = Append(@, e[1])]

\* The RigidBodyHandle that RigidBodySet::insert returns next.
NextBody(s) ==
    IF Len(s.body_free) > 0
    THEN <<Last(s.body_free), s.body_gen[Last(s.body_free) + 1]>>
    ELSE <<Len(s.body_gen), 0>>

\* RigidBodySet::insert
BodyInsert(s, body) ==
    LET h == NextBody(s)
    IN [s EXCEPT !.bodies = MapInsert(@, h[1], body),
                 !.body_gen = IF Len(s.body_free) > 0 THEN @ ELSE Append(@, 0),
                 !.body_free = IF Len(@) > 0 THEN Front(@) ELSE @]

\* RigidBodySet::get
BodyLive(s, h) ==
    /\ h[1] \in DOMAIN s.bodies
    /\ s.body_gen[h[1] + 1] = h[2]

\* RigidBodySet::remove (a stale handle removes nothing)
BodyRemove(s, h) ==
    IF BodyLive(s, h)
    THEN [s EXCEPT !.bodies = MapRemove(@, h[1]),
                   !.body_gen[h[1] + 1] = @ + 1,
                   !.body_free = Append(@, h[1])]
    ELSE s

\* The handles of the bodies present in the physics world.
BodyHandles(s) == {<<i, s.body_gen[i + 1]>> : i \in DOMAIN s.bodies}

\* The live entities.
Entities(s) == {EntityOf(s, id) : id \in DOMAIN s.world}

\* RigidBodyBuilder::dynamic().translation(p).linear_damping(0.4).angular_damping(1.0)
ShipBody(spawn_position) ==
    [body_type |-> "Dynamic", translation |-> spawn_position, rotation |-> 0,
     linvel |-> <<0, 0>>, angvel |-> 0, force |-> <<0, 0>>, torque |-> 0,
     linear_damping |-> 400, angular_damping |-> 1000,
     mass |-> ShipBodyMass, inertia |-> ShipBodyInertia]

\* GameSimulation::spawn_player_ship
spawn_player_ship(s, player_id, spawn_position) ==
    LET body_handle == NextBody(s)
        s1 == BodyInsert(s, ShipBody(spawn_position))
        entity == NextEntity(s1)
        s2 == WorldSpawn(s1,
                [kind |-> "ship",
                 transform |-> [position |-> spawn_position, rotation |-> 0],
                 velocity |-> [linear |-> <<0, 0>>, angular |-> 0],
                 health |-> HealthDefault,
                 player |-> [id |-> player_id, score |-> 0, kills |-> 0,
                             deaths |-> 0, credits |-> 0],
                 input_buffer |-> InputBufferDefault,
                 ship |-> [ShipDefault EXCEPT !.mass = ShipBodyMass, !.size = 8],
                 weapon |-> WeaponDefault,
                 rigid_body |-> body_handle])
    IN [s2 EXCEPT !.entity_to_body = MapInsert(@, entity, body_handle),
                  !.body_to_entity = MapInsert(@, body_handle, entity)]

\* A plausible slip of despawn_entity: the entity is looked up by its id
\* alone, so a stale handle reaches whatever lives under that id now.
despawn_entity_by_id(s, entity) ==
    IF entity[1] \in DOMAIN s.world
    THEN LET live == EntityOf(s, entity[1])
             body_handle == s.world[entity[1]].rigid_body
             s1 == BodyRemove(s, body_handle)
             s2 == [s1 EXCEPT !.entity_to_body = MapRemove(@, live),
                              !.body_to_entity = MapRemove(@, body_handle)]
         IN WorldDespawn(s2, live)
    ELSE s

\* A plausible slip of despawn_entity: the two map entries are left behind.
despawn_entity_keep_maps(s, entity) ==
    IF Contains(s, entity)
    THEN WorldDespawn(BodyRemove(s, s.world[entity[1]].rigid_body), entity)
    ELSE s

\* GameSimulation::despawn_entity.  Every entity of the program carries a
\* RigidBody component, so world.get::<&RigidBody> fails exactly when the
\* entity is not live, and then world.despawn fails too.
despawn_entity(s, entity) ==
    IF Contains(s, entity)
    THEN LET body_handle == s.world[entity[1]].rigid_body
             s1 == BodyRemove(s, body_handle)
             s2 == [s1 EXCEPT !.entity_to_body = MapRemove(@, entity),
                              !.body_to_entity = MapRemove(@, body_handle)]
         IN WorldDespawn(s2, entity)
    ELSE s

RECURSIVE ShipIdsFrom(_, _, _)
\* The ids of the live ships with the given player id, ascending from id i.
ShipIdsFrom(s, player_id, i) ==
    IF i >= Len(s.meta) THEN <<>>
    ELSE IF i \in DOMAIN s.world /\ s.world[i].kind = "ship"
            /\ s.world[i].player.id = player_id
         THEN <<i>> \o ShipIdsFrom(s, player_id, i + 1)
         ELSE ShipIdsFrom(s, player_id, i + 1)

\* A plausible slip of add_player_input: the test of the player id is
\* missing, the first ship gets the frame.
add_player_input_any_ship(s, player_id, input) ==
    IF {i \in DOMAIN s.world : s.world[i].kind = "ship"} = {} THEN s
    ELSE LET id == CHOOSE x \in {i \in DOMAIN s.world : s.world[i].kind = "ship"} : \A y \in {i \in DOMAIN s.world : s.world[i].kind = "ship"} : x <= y
         IN [s EXCEPT !.world[id].input_buffer = add_input(@, input)]

\* GameSimulation::add_player_input: the first entity (in iteration order,
\* here ascending id) whose Player has the id gets the frame; none, no effect.
add_player_input(s, player_id, input) ==
    LET found == ShipIdsFrom(s, player_id, 0)
    IN IF found = <<>> THEN s
       ELSE [s EXCEPT !.world[Head(found)].input_buffer = add_input(@, input)]

\* atan, in thousandths of a radian, of z / 1000 for 0 <= z <= 1000.
AtanUnit(z) == (z * (785 + (273 * (1000 - z)) \div 1000)) \div 1000

\* f32::atan2(y, x) in thousandths of a radian, for finite y and x.
Atan2(y, x) ==
    LET ax == Abs(x)
        ay == Abs(y)
        a == IF ax = 0 /\ ay = 0 THEN 0
             ELSE IF ax >= ay THEN AtanUnit((1000 * ay) \div ax)
             ELSE 1571 - AtanUnit((1000 * ax) \div ay)
        b == IF x < 0 THEN 3142 - a ELSE a
    IN IF y < 0 THEN -b ELSE b

-----------------------------------------------------------------------------
(* The systems of step (simulation.rs)                                     *)

\* The ids of the live entities of a kind, ascending: the order in which the
\* model iterates a query (hecs fixes an order; the program relies on none).
RECURSIVE IdsFrom(_, _, _)
IdsFrom(s, kind, i) ==
    IF i >= Len(s.meta) THEN <<>>
    ELSE IF i \in DOMAIN s.world /\ s.world[i].kind = kind
         THEN <<i>> \o IdsFrom(s, kind, i + 1)
         ELSE IdsFrom(s, kind, i + 1)

\* GameSimulation::prepare_inputs
prepare_inputs(s) ==
    [s EXCEPT !.world =
        [id \in DOMAIN @ |->
            IF @[id].kind = "ship"
            THEN [@[id] EXCEPT !.input_buffer = prepare_buffer(@)]
            ELSE @[id]]]

\* The simulation clock of update_movement and update_health_system,
\* tick as f64 * (1.0 / 15.0), as a whole number of ticks.
current_time(s) == s.tick

\* A plausible slip of the cooldown test: the cooldown is not looked at.
CanFire_no_cooldown(c, now) ==
    /\ Len(c.input_buffer.buffer) > 0
    /\ Last(c.input_buffer.buffer).primary_fire
    /\ c.weapon.weapon_type.tag = "RapidFire"

\* A plausible slip of the fire test: secondary fire fires the weapon too.
CanFire_on_secondary(c, now) ==
    /\ Len(c.input_buffer.buffer) > 0
    /\ \/ Last(c.input_buffer.buffer).primary_fire
       \/ Last(c.input_buffer.buffer).secondary_fire
    /\ ElapsedAtLeast(now - c.weapon.last_fire_time, c.weapon.cooldown)
    /\ c.weapon.weapon_type.tag = "RapidFire"

\* The test of process_weapon_firing on the components c of one ship.
CanFire(c, now) ==
    /\ Len(c.input_buffer.buffer) > 0
    /\ Last(c.input_buffer.buffer).primary_fire
    /\ ElapsedAtLeast(now - c.weapon.last_fire_time, c.weapon.cooldown)
    /\ c.weapon.weapon_type.tag = "RapidFire"

\* The ships that fire in process_weapon_firing, in iteration order.
FiringIds(s, now) == SelectSeq(IdsFrom(s, "ship", 0), LAMBDA id : CanFire(s.world[id], now))

\* GameSimulation::spawn_projectile.  The body is built without a rotation.
spawn_projectile(s, position, velocity, damage, owner_id) ==
    LET body_handle == NextBody(s)
        s1 == BodyInsert(s,
                [body_type |-> "KinematicVelocityBased", translation |-> position,
                 rotation |-> 0, linvel |-> velocity, angvel |-> 0,
                 force |-> <<0, 0>>, torque |-> 0,
                 linear_damping |-> 0, angular_damping |-> 0,
                 mass |-> 0, inertia |-> 0])
        entity == NextEntity(s1)
        s2 == WorldSpawn(s1,
                [kind |-> "projectile",
                 transform |-> [position |-> position,
                                rotation |-> Atan2(velocity[2], velocity[1])],
                 velocity |-> [linear |-> velocity, angular |-> 0],
                 projectile |-> [damage |-> damage, lifetime |-> ProjectileLifetime,
                                 speed |-> 300, owner_id |-> owner_id],
                 lifetime |-> [remaining |-> ProjectileLifetime],
                 rigid_body |-> body_handle])
    IN [s2 EXCEPT !.entity_to_body = MapInsert(@, entity, body_handle),
                  !.body_to_entity = MapInsert(@, body_handle, entity)]

\* The tuple process_weapon_firing pushes for a firing ship with components c.
ProjectileOf(c) ==
    LET r == c.transform.rotation
        speed == c.weapon.weapon_type.speed
    IN [position |-> <<FAdd(c.transform.position[1], Cos1000(r) * 15),
                       FAdd(c.transform.position[2], Sin1000(r) * 15)>>,
        velocity |-> <<Cos1000(r) * speed, Sin1000(r) * speed>>,
        damage |-> c.weapon.weapon_type.damage,
        owner_id |-> c.player.id]

RECURSIVE SpawnAll(_, _)
\* The last loop of process_weapon_firing.
SpawnAll(s, projectiles_to_spawn) ==
    IF projectiles_to_spawn = <<>> THEN s
    ELSE LET p == Head(projectiles_to_spawn)
         IN SpawnAll(spawn_projectile(s, p.position, p.velocity, p.damage, p.owner_id),
                     Tail(projectiles_to_spawn))

\* GameSimulation::process_weapon_firing
process_weapon_firing(s, now) ==
    LET firing == FiringIds(s, now)
        projectiles_to_spawn == [k \in 1..Len(firing) |-> ProjectileOf(s.world[firing[k]])]
        s1 == [s EXCEPT !.world =
                  [id \in DOMAIN @ |->
                      IF @[id].kind = "ship" /\ CanFire(@[id], now)
                      THEN [@[id] EXCEPT !.weapon.last_fire_time = now]
                      ELSE @[id]]]
    IN SpawnAll(s1, projectiles_to_spawn)

\* Whether the ship entity with the given id has a body update_movement reaches.
HasBody(s, id) ==
    /\ EntityOf(s, id) \in DOMAIN s.entity_to_body
    /\ BodyLive(s, s.entity_to_body[EntityOf(s, id)])

\* A plausible slip of thrust_value: full thrust when no frame is pending.
ThrustValue_full_when_idle(c) ==
    IF Len(c.input_buffer.buffer) > 0 THEN Last(c.input_buffer.buffer).thrust ELSE 1000

\* thrust_value and turn_value of update_movement for the components c.
ThrustValue(c) ==
    IF Len(c.input_buffer.buffer) > 0 THEN Last(c.input_buffer.buffer).thrust ELSE 0

TurnValue(c) ==
    IF Len(c.input_buffer.buffer) > 0 THEN Last(c.input_buffer.buffer).turn ELSE 0

\* thrust_direction * ship.thrust_power * thrust_value
ThrustForce(c) ==
    <<FMulMilli(Cos1000(c.transform.rotation) * c.ship.thrust_power, ThrustValue(c)),
      FMulMilli(Sin1000(c.transform.rotation) * c.ship.thrust_power, ThrustValue(c))>>

\* -turn_value * ship.turn_rate * ship.mass * 100.0
Torque(c) == Quot(-TurnValue(c) * c.ship.turn_rate * c.ship.mass * 100, 1000)

\* A plausible slip of update_movement: reset_forces and reset_torques are
\* left out, so add_force and add_torque add to what the body already has.
ApplyForces_no_reset(body, c) ==
    [body EXCEPT !.force = IF FNonZero(ThrustValue(c))
                           THEN <<FAdd(@[1], ThrustForce(c)[1]), FAdd(@[2], ThrustForce(c)[2])>>
                           ELSE @,
                 !.torque = IF FNonZero(TurnValue(c)) THEN @ + Torque(c) ELSE @]

\* What the second pass of update_movement does to the body of a ship.
ApplyForces(body, c) ==
    [body EXCEPT !.force = IF FNonZero(ThrustValue(c)) THEN ThrustForce(c) ELSE <<0, 0>>,
                 !.torque = IF FNonZero(TurnValue(c)) THEN Torque(c) ELSE 0]

\* The second pass of update_movement.
apply_movement(s) ==
    LET ships == {id \in DOMAIN s.world : s.world[id].kind = "ship" /\ HasBody(s, id)}
        Owners(b) == {id \in ships : s.entity_to_body[EntityOf(s, id)][1] = b}
    IN [s EXCEPT
          !.bodies = [b \in DOMAIN @ |->
                         IF Owners(b) # {}
                         THEN ApplyForces(@[b], s.world[CHOOSE id \in Owners(b) : TRUE])
                         ELSE @[b]],
          !.world = [id \in DOMAIN @ |->
                         IF id \in ships
                         THEN [@[id] EXCEPT !.input_buffer = clear_buffer(@)]
                         ELSE @[id]]]

\* A plausible slip of update_movement: the forces are applied and the
\* buffers cleared first, the weapons looked at afterwards.
update_movement_clear_first(s) == process_weapon_firing(apply_movement(s), current_time(s))

\* GameSimulation::update_movement
update_movement(s) == apply_movement(process_weapon_firing(s, current_time(s)))

\* A plausible slip of the ship's body: it is built without damping.
Undamped(v, damping, ms) == v

\* v / (1 + dt * damping), the integrator's damping of a velocity.
Damped(v, damping, ms) == FMulQ(v, 1000, 1000 + (damping * ms) \div 1000)

\* One body through PhysicsPipeline::step: forces, damping, then the pose
\* (semi-implicit Euler); a kinematic body keeps its velocity.  Contacts
\* between bodies are outside the model.
IntegrateBody(body, ms) ==
    IF body.body_type = "Dynamic"
    THEN LET vx == Damped(FAdd(body.linvel[1], FMulQ(body.force[1], ms, body.mass)),
                          body.linear_damping, ms)
             vy == Damped(FAdd(body.linvel[2], FMulQ(body.force[2], ms, body.mass)),
                          body.linear_damping, ms)
             w == Damped(FAdd(body.angvel, FMulQ(body.torque, ms, body.inertia)),
                         body.angular_damping, ms)
         IN [body EXCEPT !.linvel = <<vx, vy>>,
                         !.angvel = w,
                         !.translation = <<FAdd(@[1], FMulQ(vx, ms, 1000)),
                                           FAdd(@[2], FMulQ(vy, ms, 1000))>>,
                         !.rotation = NormAngle(@ + Quot(w * ms, 1000))]
    ELSE [body EXCEPT !.translation = <<FAdd(@[1], FMulQ(body.linvel[1], ms, 1000)),
                                        FAdd(@[2], FMulQ(body.linvel[2], ms, 1000))>>]

\* GameSimulation::step_physics
step_physics(s, dt) ==
    [s EXCEPT !.bodies = [b \in DOMAIN @ |-> IntegrateBody(@[b], Millis(dt))]]

\* GameSimulation::sync_physics_to_ecs
sync_physics_to_ecs(s) ==
    [s EXCEPT !.world =
        [id \in DOMAIN @ |->
            IF HasBody(s, id)
            THEN LET body == s.bodies[s.entity_to_body[EntityOf(s, id)][1]]
                 IN [@[id] EXCEPT !.transform = [position |-> body.translation,
                                                 rotation |-> body.rotation],
                                  !.velocity = [linear |-> body.linvel,
                                                angular |-> body.angvel]]
            ELSE @[id]]]

RECURSIVE DespawnAll(_, _)
DespawnAll(s, entities_to_remove) ==
    IF entities_to_remove = <<>> THEN s
    ELSE DespawnAll(despawn_entity(s, Head(entities_to_remove)), Tail(entities_to_remove))

\* GameSimulation::update_lifetime_system
update_lifetime_system(s, dt) ==
    LET s1 == [s EXCEPT !.world =
                  [id \in DOMAIN @ |->
                      IF @[id].kind = "projectile"
                      THEN [@[id] EXCEPT !.lifetime.remaining = F32Sub(@, dt)]
                      ELSE @[id]]]
        ids == SelectSeq(IdsFrom(s1, "projectile", 0),
                         LAMBDA id : s1.world[id].lifetime.remaining <= 0)
        entities_to_remove == [k \in 1..Len(ids) |-> EntityOf(s1, ids[k])]
    IN DespawnAll(s1, entities_to_remove)

Min(a, b) == IF a < b THEN a ELSE b

\* A plausible slip of the shield regeneration: neither the `shield <
\* shield_max` test nor the clamp to shield_max.
RechargeShield_no_clamp(health, now, dt) ==
    IF ElapsedAtLeast(now - health.last_damage_time, health.shield_recharge_delay)
    THEN [health EXCEPT !.shield = @ + (health.shield_recharge_rate * Millis(dt)) \div 1000]
    ELSE health

\* A plausible slip of the shield regeneration: the recharge delay is not
\* looked at.
RechargeShield_no_delay(health, now, dt) ==
    IF health.shield < health.shield_max
    THEN [health EXCEPT !.shield =
             Min(@ + (health.shield_recharge_rate * Millis(dt)) \div 1000,
                 health.shield_max)]
    ELSE health

\* The body of the loop of update_health_system on one Health.
RechargeShield(health, now, dt) ==
    IF /\ ElapsedAtLeast(now - health.last_damage_time, health.shield_recharge_delay)
       /\ health.shield < health.shield_max
    THEN [health EXCEPT !.shield =
             Min(@ + (health.shield_recharge_rate * Millis(dt)) \div 1000,
                 health.shield_max)]
    ELSE health

\* GameSimulation::update_health_system
update_health_system(s, dt) ==
    [s EXCEPT !.world =
        [id \in DOMAIN @ |->
            IF "health" \in DOMAIN @[id]
            THEN [@[id] EXCEPT !.health = RechargeShield(@, current_time(s), dt)]
            ELSE @[id]]]

\* One coordinate through apply_boundaries.
Clamp(v, lo, hi) == IF FLt(v, lo) THEN lo ELSE IF FGt(v, hi) THEN hi ELSE v

\* transform.position through apply_boundaries.
ClampedPosition(position, bounds) ==
    <<Clamp(position[1], bounds.center[1] - bounds.width \div 2,
            bounds.center[1] + bounds.width \div 2),
      Clamp(position[2], bounds.center[2] - bounds.height \div 2,
            bounds.center[2] + bounds.height \div 2)>>

\* A plausible slip of apply_boundaries: the clamp reaches the Transform
\* only, and the body keeps its translation and its velocity.
apply_boundaries_transform_only(s) ==
    [s EXCEPT !.world = [id \in DOMAIN @ |->
                            [@[id] EXCEPT !.transform.position =
                                              ClampedPosition(@, s.bounds)]]]

\* GameSimulation::apply_boundaries
apply_boundaries(s) ==
    LET Clamped(id) ==
            ClampedPosition(s.world[id].transform.position, s.bounds)
                # s.world[id].transform.position
        hit == {id \in DOMAIN s.world : Clamped(id)}
        Owners(b) == {id \in hit : HasBody(s, id)
                                   /\ s.entity_to_body[EntityOf(s, id)][1] = b}
    IN [s EXCEPT
          !.world = [id \in DOMAIN @ |->
                        IF id \in hit
                        THEN [@[id] EXCEPT !.transform.position =
                                               ClampedPosition(@, s.bounds)]
                        ELSE @[id]],
          !.bodies = [b \in DOMAIN @ |->
                        IF Owners(b) # {}
                        THEN [@[b] EXCEPT
                                !.translation =
                                    ClampedPosition(
                                        s.world[CHOOSE id \in Owners(b) : TRUE].transform.position,
                                        s.bounds),
                                !.linvel = <<FMulQ(@[1], 1, 2), FMulQ(@[2], 1, 2)>>]
                        ELSE @[b]]]

\* A plausible slip of the end of step: the snapshot sequence is not advanced.
advance_tick_keep_sequence(s) == [s EXCEPT !.tick = @ + 1]

\* `self.tick += 1; self.snapshot_sequence += 1` of step.
advance_tick(s) ==
    [s EXCEPT !.tick = @ + 1, !.snapshot_sequence = U32WrappingInc(@)]

\* The EntitySnapshot of the live entity with the given id.
EntitySnapshot(s, id) ==
    LET c == s.world[id]
    IN IF c.kind = "ship"
       THEN [entity_id |-> id,
             entity_type |-> [tag |-> "Player", id |-> c.player.id],
             transform |-> c.transform, velocity |-> c.velocity,
             health |-> c.health, ship |-> <<c.ship>>]
       ELSE [entity_id |-> id,
             entity_type |-> [tag |-> "Projectile", id |-> c.projectile.owner_id],
             transform |-> c.transform, velocity |-> c.velocity,
             health |-> HealthDefault, ship |-> <<>>]

\* A plausible slip of generate_snapshot: the projectiles are left out.
generate_snapshot_players_only(s) ==
    LET players == IdsFrom(s, "ship", 0)
    IN [sequence |-> s.snapshot_sequence,
        tick |-> s.tick,
        entities |-> [k \in 1..Len(players) |-> EntitySnapshot(s, players[k])]]

\* GameSimulation::generate_snapshot (without the wall-clock timestamp)
generate_snapshot(s) ==
    LET players == IdsFrom(s, "ship", 0)
        projectiles == IdsFrom(s, "projectile", 0)
    IN [sequence |-> s.snapshot_sequence,
        tick |-> s.tick,
        entities |-> [k \in 1..Len(players) |-> EntitySnapshot(s, players[k])]
                     \o [k \in 1..Len(projectiles) |-> EntitySnapshot(s, projectiles[k])]]

\* The simulation after each system of step, in the order step runs them.
AfterInputs(s) == prepare_inputs(s)

AfterMovement(s) == update_movement(AfterInputs(s))

AfterPhysics(s, dt) == sync_physics_to_ecs(step_physics(AfterMovement(s), dt))

AfterLifetime(s, dt) == update_lifetime_system(AfterPhysics(s, dt), dt)

AfterHealth(s, dt) == update_health_system(AfterLifetime(s, dt), dt)

AfterBoundaries(s, dt) == apply_boundaries(AfterHealth(s, dt))

\* GameSimulation::step: the simulation it leaves.
step(s, dt) == advance_tick(AfterBoundaries(s, dt))

\* GameSimulation::step: the SimulationStepResult it returns, given the
\* simulation it leaves.
StepResult(s) ==
    [tick |-> s.tick, entity_count |-> Cardinality(DOMAIN s.world),
     snapshot |-> <<generate_snapshot(s)>>]

-----------------------------------------------------------------------------
(* The server at start (main.rs)                                           *)

\* Room::add_player refuses the player when the room holds this many.
MaxPlayers == 10

\* The connections of the model, each named by the player id handle_socket
\* gives it: enough to fill a room and be refused.
Conns == 1..(MaxPlayers + 1)

\* The room codes create_room generates, in the order it generates them.
RoomCodes == {1}

\* The processes that take the directory's lock: the receive task of each
\* connection, the simulation task of each room, the cleanup task and the
\* handler of POST /create-room.
Procs ==
    {<<"conn", c>> : c \in Conns} \cup {<<"sim", r>> : r \in RoomCodes}
        \cup {<<"cleanup", 0>>, <<"http", 0>>}

\* main: an empty directory at time 0, no connection, no task.
NoRooms ==
    /\ rooms = EmptyMap
    /\ clock = 0
    /\ conn = [c \in Conns |-> [status |-> "open", current_room |-> <<>>,
                                reply |-> "", last_message |-> 0]]
    /\ task = [r \in RoomCodes |-> "none"]
    /\ event = [op |-> "", conn |-> 0, data |-> <<>>,
                removed_players |-> {}, removed_rooms |-> {}]
    /\ empty_since = [r \in RoomCodes |-> 0]
    /\ lock = <<>>
    /\ pc = [p \in Procs |-> "idle"]
    /\ sent = [r \in RoomCodes |-> <<>>]

-----------------------------------------------------------------------------
(* The operations on a room's simulation                                   *)

\* The room has run empty for up to this many ticks before the first player.
IdleTicks == 4

\* The steps taken after that.
MaxSteps == 2

MaxGeneration == 1

MaxPending == 1

MaxSeq == 1

PlayerIds == {1, 2}

\* Where a player's ship is spawned: just inside the right wall for one,
\* outside the arena for the other.
SpawnPosition(p) == IF p = 1 THEN <<959000, 0>> ELSE <<-2000000, 700000>>

RECURSIVE Idle(_, _)
\* The simulation after the room's loop has stepped it k more times, or
\* fewer if an entity appears: the room before its first player.
Idle(s, k) ==
    IF k = 0 THEN s
    ELSE LET next == step(s, DtTick)
         IN IF DOMAIN next.world = {} /\ DOMAIN next.bodies = {}
            THEN Idle(next, k - 1)
            ELSE next

\* The step sizes: the room's 1/15 s, and 2 s.
DtChoices == {DtTick, DtLong}

\* The controls a frame may carry: fire while turning, full thrust, and a
\* thrust that overflowed f32 when it was parsed (1e39).
Controls ==
    {[thrust |-> 0, turn |-> 1000, primary_fire |-> TRUE, secondary_fire |-> TRUE],
     [thrust |-> 1000, turn |-> 0, primary_fire |-> FALSE, secondary_fire |-> FALSE],
     [thrust |-> PosInf, turn |-> 0, primary_fire |-> FALSE, secondary_fire |-> FALSE]}

\* The entity handles a caller may hold: live, stale or never handed out.
HandleChoices == {<<id, g>> : id \in 0..Len(sim.meta), g \in 1..(MaxGeneration + 1)}

Ships(s) == {id \in DOMAIN s.world : s.world[id].kind = "ship"}

Projectiles(s) == {id \in DOMAIN s.world : s.world[id].kind = "projectile"}

\* The history of the projectiles, brought up to date after an operation
\* took the simulation from s to s2.
AgeAfter(s, s2, stepped) ==
    [e \in {EntityOf(s2, id) : id \in Projectiles(s2)} |->
        IF e \in DOMAIN age THEN (IF stepped THEN age[e] + 1 ELSE age[e]) ELSE 0]

\* Whether the step about to run on s finds, for the ship of player p, a
\* frame that prepare_inputs accepts and that has primary_fire set.
FireDelivered(s, p) ==
    LET found == ShipIdsFrom(s, p, 0)
    IN IF found = <<>> THEN FALSE
       ELSE LET d == Drain(s.world[Head(found)].input_buffer, <<>>, 0)
            IN d.latest_input # <<>> /\ d.latest_input[1].primary_fire

\* What the step about to run on s reads from the buffer of player p's ship:
\* the frames given since the latest step, last_processed_sequence before the
\* step, the frame get_next_input returned last in prepare_inputs (if any),
\* prepare_inputs' discarded_count, and the thrust_value, turn_value
\* and primary_fire that update_movement and process_weapon_firing read.
DrainedBy(s, p) ==
    LET found == ShipIdsFrom(s, p, 0)
    IN IF found = <<>> THEN <<>>
       ELSE LET b == s.world[Head(found)].input_buffer
                c == AfterInputs(s).world[Head(found)]
            IN <<[frames |-> added[p],
                  from |-> b.last_processed_sequence,
                  returned |-> Drain(b, <<>>, 0).latest_input,
                  discarded_count |-> Drain(b, <<>>, 0).discarded_count,
                  thrust_value |-> ThrustValue(c),
                  turn_value |-> TurnValue(c),
                  primary_fire |-> /\ Len(c.input_buffer.buffer) > 0
                                   /\ Last(c.input_buffer.buffer).primary_fire]>>

Init ==
    /\ sim = Idle(GameSimulationNew, IdleTicks)
    /\ result = <<>>
    /\ fire_log = [p \in PlayerIds |-> <<>>]
    /\ age = EmptyMap
    /\ gone = {}
    /\ fire_held = [p \in PlayerIds |-> FALSE]
    /\ added = [p \in PlayerIds |-> <<>>]
    /\ drained = <<>>
    /\ spawned = [p \in PlayerIds |-> <<>>]
    /\ ib = InputBufferDefault
    /\ ib_panicked = FALSE
    /\ NoRooms
    /\ overflow_checks = FALSE

SpawnPlayerShip(p, pos) ==
    /\ sim' = spawn_player_ship(sim, p, pos)
    /\ result' = <<>>
    /\ fire_held' = [fire_held EXCEPT ![p] = TRUE]
    /\ added' = [added EXCEPT ![p] = <<>>]
    /\ drained' = <<>>
    /\ spawned' = [spawned EXCEPT ![p] = <<pos>>]
    /\ UNCHANGED <<fire_log, age, gone>>
    /\ UNCHANGED <<bufVars, roomVars>>

DespawnEntity(e) ==
    /\ sim' = despawn_entity(sim, e)
    /\ age' = AgeAfter(sim, sim', FALSE)
    /\ result' = <<>>
    /\ added' = [p \in PlayerIds |-> IF ShipIdsFrom(sim', p, 0) = <<>> THEN <<>> ELSE added[p]]
    /\ drained' = <<>>
    /\ spawned' = [p \in PlayerIds |-> IF ShipIdsFrom(sim', p, 0) = <<>> THEN <<>> ELSE spawned[p]]
    /\ UNCHANGED <<fire_log, gone, fire_held>>
    /\ UNCHANGED <<bufVars, roomVars>>

AddPlayerInput(p, input) ==
    /\ sim' = add_player_input(sim, p, input)
    /\ result' = <<>>
    /\ added' = [added EXCEPT ![p] = IF ShipIdsFrom(sim, p, 0) = <<>> THEN @ ELSE Append(@, input)]
    /\ drained' = <<>>
    /\ UNCHANGED spawned
    /\ UNCHANGED <<fire_log, age, gone, fire_held>>
    /\ UNCHANGED <<bufVars, roomVars>>

Step(dt) ==
    LET s2 == step(sim, dt)
        new == {id \in Projectiles(s2) : ~Contains(sim, EntityOf(s2, id))}
        expired == {id \in Projectiles(sim) : ~Contains(s2, EntityOf(sim, id))}
    IN /\ sim' = s2
       /\ result' = <<StepResult(s2)>>
       /\ fire_log' = [p \in PlayerIds |->
                          fire_log[p] \o
                          [k \in 1..Cardinality({id \in new :
                                                   s2.world[id].projectile.owner_id = p})
                             |-> sim.tick]]
       /\ age' = AgeAfter(sim, s2, TRUE)
       /\ gone' = gone \cup {[entity |-> EntityOf(sim, id),
                              body |-> sim.world[id].rigid_body,
                              steps |-> age[EntityOf(sim, id)] + 1] : id \in expired}
       /\ fire_held' = [p \in PlayerIds |-> fire_held[p] /\ FireDelivered(sim, p)]
       /\ added' = [p \in PlayerIds |-> <<>>]
       /\ drained' = <<[p \in PlayerIds |-> DrainedBy(sim, p)]>>
       /\ UNCHANGED spawned
       /\ UNCHANGED <<bufVars, roomVars>>

\* The buffer add_player_input would reach, and whether it has room in the model.
RoomFor(p) ==
    LET found == ShipIdsFrom(sim, p, 0)
    IN IF found = <<>> THEN TRUE
       ELSE Len(sim.world[Head(found)].input_buffer.buffer) < MaxPending

Next ==
    \/ \E p \in PlayerIds :
          /\ ShipIdsFrom(sim, p, 0) = <<>>
          /\ NextEntity(sim)[2] <= MaxGeneration
          /\ SpawnPlayerShip(p, SpawnPosition(p))
    \/ \E e \in HandleChoices : DespawnEntity(e)
    \/ \E p \in PlayerIds, q \in 1..MaxSeq, c \in Controls :
          /\ RoomFor(p)
          /\ AddPlayerInput(p, InputData(U32(q), c.thrust, c.turn,
                                         c.primary_fire, c.secondary_fire))
    \/ \E dt \in DtChoices :
          /\ sim.tick < IdleTicks + MaxSteps
          /\ Step(dt)

Spec == Init /\ [][Next]_vars

-----------------------------------------------------------------------------
(* Properties of step and of the entity/body maps                          *)

\* The current transition is a call of step: only step returns a snapshot.
Stepped == Len(result') = 1

\* C1: every step, whatever dt, adds exactly 1 to tick and exactly 1 to
\* snapshot_sequence and returns a snapshot carrying the new values; no other
\* operation changes either, so both strictly increase from one snapshot to
\* the next however spawns, despawns and inputs are interleaved.
C1_StepAdvancesTickAndSequence ==
    [][IF Stepped
       THEN /\ sim'.tick = sim.tick + 1
            /\ sim'.snapshot_sequence = sim.snapshot_sequence + 1
            /\ result'[1].tick = sim'.tick
            /\ result'[1].snapshot[1].tick = sim'.tick
            /\ result'[1].snapshot[1].sequence = sim'.snapshot_sequence
       ELSE /\ sim'.tick = sim.tick
            /\ sim'.snapshot_sequence = sim.snapshot_sequence]_vars

\* A step has just returned a snapshot that lists a ship and a projectile.
C1_Witness ==
    /\ Len(result) = 1
    /\ result[1].snapshot[1].tick = IdleTicks + 2
    /\ result[1].snapshot[1].sequence = U32(IdleTicks + 2)
    /\ Len(result[1].snapshot[1].entities) >= 2

\* C2: after any sequence of spawns, despawns, inputs and steps,
\* entity_to_body and body_to_entity are inverse to each other, the domain of
\* entity_to_body is exactly the live entities (each carries its link, and
\* the link is the mapped handle), and its range is exactly the bodies
\* present in the physics world.
C2_MapsInverseAndExact ==
    /\ \A e \in DOMAIN sim.entity_to_body :
          /\ sim.entity_to_body[e] \in DOMAIN sim.body_to_entity
          /\ sim.body_to_entity[sim.entity_to_body[e]] = e
    /\ \A h \in DOMAIN sim.body_to_entity :
          /\ sim.body_to_entity[h] \in DOMAIN sim.entity_to_body
          /\ sim.entity_to_body[sim.body_to_entity[h]] = h
    /\ DOMAIN sim.entity_to_body = Entities(sim)
    /\ \A id \in DOMAIN sim.world :
          sim.entity_to_body[EntityOf(sim, id)] = sim.world[id].rigid_body
    /\ {sim.entity_to_body[e] : e \in DOMAIN sim.entity_to_body} = BodyHandles(sim)

\* A projectile's lifetime has run out, a ship was despawned by a call, and
\* a ship and a projectile are live.
C2_Witness ==
    /\ gone # {}
    /\ Projectiles(sim) # {}
    /\ Ships(sim) # {}
    /\ Cardinality(Ships(sim)) + Cardinality(Projectiles(sim)) + Cardinality(gone)
          < Len(sim.meta) + Len(sim.pending)

\* C3: despawn_entity(e) a second time, or on an entity that is not live
\* (stale or never handed out), changes nothing at all; the first call on a
\* live entity removes that entity, its body and its two map entries and
\* leaves every other entity, body and map entry as it was.
C3_DespawnIdempotent ==
    \A e \in HandleChoices :
        LET s1 == despawn_entity(sim, e)
        IN /\ despawn_entity(s1, e) = s1
           /\ ~Contains(sim, e) => s1 = sim
           /\ \A id \in DOMAIN sim.world :
                 EntityOf(sim, id) # e =>
                    /\ id \in DOMAIN s1.world
                    /\ s1.world[id] = sim.world[id]
                    /\ EntityOf(s1, id) = EntityOf(sim, id)
                    /\ BodyLive(s1, sim.world[id].rigid_body)
                    /\ s1.bodies[sim.world[id].rigid_body[1]]
                          = sim.bodies[sim.world[id].rigid_body[1]]
                    /\ s1.entity_to_body[EntityOf(sim, id)]
                          = sim.entity_to_body[EntityOf(sim, id)]
           /\ Contains(sim, e) =>
                 /\ DOMAIN s1.world = DOMAIN sim.world \ {e[1]}
                 /\ DOMAIN s1.bodies = DOMAIN sim.bodies \ {sim.world[e[1]].rigid_body[1]}
                 /\ DOMAIN s1.entity_to_body = DOMAIN sim.entity_to_body \ {e}

\* A stale handle whose id has been handed out again to a live entity, next
\* to another live entity.
C3_Witness ==
    /\ \E e \in HandleChoices :
          /\ e[1] \in DOMAIN sim.world
          /\ e[2] < sim.meta[e[1] + 1]
    /\ Cardinality(DOMAIN sim.world) >= 2

\* A position inside the arena rectangle (NaN is inside nothing).
InsideArena(position, bounds) ==
    /\ ~IsNaN(position[1])
    /\ ~IsNaN(position[2])
    /\ position[1] >= bounds.center[1] - bounds.width \div 2
    /\ position[1] <= bounds.center[1] + bounds.width \div 2
    /\ position[2] >= bounds.center[2] - bounds.height \div 2
    /\ position[2] <= bounds.center[2] + bounds.height \div 2

\* C4: when step returns, the Transform position of every entity lies inside
\* the arena rectangle, wherever it was spawned and whatever inputs arrived.
C4_PositionsInsideArena ==
    Len(result) = 1 =>
        \A id \in DOMAIN sim.world :
            InsideArena(sim.world[id].transform.position, sim.bounds)

-----------------------------------------------------------------------------
(* One ship's InputBuffer under its four operations                        *)

\* Frames are accepted in order up to this sequence number ...
MaxAdvance == 2

\* ... and at most this many frames below the top sequence number wait.
MaxLow == 2

\* The frames of the buffer whose sequence number is not the largest u32.
LowFrames(b) == {i \in 1..Len(b.buffer) : b.buffer[i].sequence # U32Max}

\* The sequence numbers a client sends next: the one the buffer waits for
\* (while the model follows it), and the largest u32.
SequenceChoices ==
    LET next == U32WrappingInc(ib.last_processed_sequence)
    IN {U32Max} \cup
       (IF Cardinality(LowFrames(ib)) < MaxLow /\ next <= U32(MaxAdvance)
        THEN {next} ELSE {})

InitBuf ==
    /\ sim = GameSimulationNew
    /\ result = <<>>
    /\ fire_log = [p \in PlayerIds |-> <<>>]
    /\ age = EmptyMap
    /\ gone = {}
    /\ fire_held = [p \in PlayerIds |-> FALSE]
    /\ added = [p \in PlayerIds |-> <<>>]
    /\ drained = <<>>
    /\ spawned = [p \in PlayerIds |-> <<>>]
    /\ ib \in {[InputBufferDefault EXCEPT !.last_processed_sequence = l] :
                 l \in {U32(0), U32Max - 1}}
    /\ ib_panicked = FALSE
    /\ NoRooms
    /\ overflow_checks \in BOOLEAN

BufAddInput(input) ==
    /\ ~ib_panicked
    /\ ib' = add_input(ib, input)
    /\ UNCHANGED <<ib_panicked, overflow_checks>>
    /\ UNCHANGED <<simVars, roomVars>>

BufGetNextInput ==
    /\ ~ib_panicked
    /\ IF get_next_input_panics(ib, overflow_checks)
       THEN ib_panicked' = TRUE /\ ib' = ib
       ELSE ib_panicked' = FALSE /\ ib' = get_next_input(ib).b
    /\ UNCHANGED overflow_checks
    /\ UNCHANGED <<simVars, roomVars>>

BufClearOldInputs(min_sequence) ==
    /\ ~ib_panicked
    /\ ib' = clear_old_inputs(ib, min_sequence)
    /\ UNCHANGED <<ib_panicked, overflow_checks>>
    /\ UNCHANGED <<simVars, roomVars>>

\* What one step does to the buffer: prepare_inputs, then update_movement's clear.
BufStep ==
    /\ ~ib_panicked
    /\ IF DrainPanics(ib, overflow_checks)
       THEN ib_panicked' = TRUE /\ ib' = ib
       ELSE ib_panicked' = FALSE /\ ib' = clear_buffer(prepare_buffer(ib))
    /\ UNCHANGED overflow_checks
    /\ UNCHANGED <<simVars, roomVars>>

NextBuf ==
    \/ \E q \in SequenceChoices :
          BufAddInput(InputData(q, 0, 0, TRUE, FALSE))
    \/ BufGetNextInput
    \/ \E m \in {U32WrappingInc(ib.last_processed_sequence), U32Max} :
          BufClearOldInputs(m)
    \/ BufStep

SpecBuf == InitBuf /\ [][NextBuf]_vars

\* C5: the input buffer never holds more than its capacity of 60 frames,
\* however many frames are added, in whatever order, between steps.
C5_BufferWithinCapacity == Len(ib.buffer) <= max_buffer_size

\* The buffer is full with a waiting frame in front, and one more frame
\* pushes that frame out.
C5_Witness ==
    /\ Len(ib.buffer) = max_buffer_size
    /\ Head(ib.buffer).sequence < U32Max
    /\ Len(add_input(ib, InputData(U32Max, 0, 0, FALSE, FALSE)).buffer) = max_buffer_size
    /\ Head(add_input(ib, InputData(U32Max, 0, 0, FALSE, FALSE)).buffer).sequence = U32Max

\* C6: last_processed_sequence never decreases, whatever add_input,
\* get_next_input, clear_old_inputs and step do and whatever u32 values the
\* sequence numbers take, the largest included.
C6_LastProcessedNeverDecreases ==
    [][ib'.last_processed_sequence >= ib.last_processed_sequence]_vars

-----------------------------------------------------------------------------
(* One ship firing: the cooldown and the cadence                           *)

\* The steps of the firing runs.
MaxFireSteps == 5

\* The firing runs start in a room that has run empty for IdleTicks, or for
\* this many ticks: one short of the shield's recharge delay.
LateTicks == 44

\* The controls of the firing runs: fire, or nothing.
FireControls ==
    {[thrust |-> 0, turn |-> 0, primary_fire |-> TRUE, secondary_fire |-> FALSE],
     [thrust |-> 0, turn |-> 0, primary_fire |-> FALSE, secondary_fire |-> FALSE]}

\* The sequence number an in-order client gives its next frame.
NextSequence(p) ==
    LET found == ShipIdsFrom(sim, p, 0)
    IN IF found = <<>> THEN U32(1)
       ELSE LET b == sim.world[Head(found)].input_buffer
            IN IF Len(b.buffer) > 0 THEN U32WrappingInc(Last(b.buffer).sequence)
               ELSE U32WrappingInc(b.last_processed_sequence)

NextFire ==
    \/ /\ ShipIdsFrom(sim, 1, 0) = <<>>
       /\ NextEntity(sim)[2] <= MaxGeneration
       /\ SpawnPlayerShip(1, SpawnPosition(1))
    \/ \E q \in {NextSequence(1), U32(1)}, c \in FireControls :
          /\ RoomFor(1)
          /\ AddPlayerInput(1, InputData(q, c.thrust, c.turn,
                                         c.primary_fire, c.secondary_fire))
    \/ /\ \/ sim.tick < IdleTicks + MaxFireSteps
          \/ sim.tick >= LateTicks /\ sim.tick < LateTicks + MaxFireSteps
       /\ Step(DtTick)

InitFire ==
    /\ \E k \in {IdleTicks, LateTicks} : sim = Idle(GameSimulationNew, k)
    /\ result = <<>>
    /\ fire_log = [p \in PlayerIds |-> <<>>]
    /\ age = EmptyMap
    /\ gone = {}
    /\ fire_held = [p \in PlayerIds |-> FALSE]
    /\ added = [p \in PlayerIds |-> <<>>]
    /\ drained = <<>>
    /\ spawned = [p \in PlayerIds |-> <<>>]
    /\ ib = InputBufferDefault
    /\ ib_panicked = FALSE
    /\ NoRooms
    /\ overflow_checks = FALSE

SpecFire == InitFire /\ [][NextFire]_vars

\* C8: two consecutive projectiles of one ship are spawned at simulation
\* times (tick / 15 s) at least the weapon's cooldown (13421773 / 2^26 s)
\* apart, whatever the inputs; so never two in one step.
C8_CooldownBetweenShots ==
    \A p \in PlayerIds :
        \A k \in 1..(Len(fire_log[p]) - 1) :
            /\ fire_log[p][k + 1] > fire_log[p][k]
            /\ (fire_log[p][k + 1] - fire_log[p][k]) * WeaponDefault.cooldown.den
                  >= SIM_TICK_RATE * WeaponDefault.cooldown.num

\* One ship has spawned a second projectile.
C8_Witness == \E p \in PlayerIds : Len(fire_log[p]) >= 2

\* C9: a ship that gets an in-order frame with primary_fire set in every
\* step spawns exactly one projectile every 3 ticks.
C9_OneProjectileEveryThreeTicks ==
    \A p \in PlayerIds :
        fire_held[p] /\ Len(fire_log[p]) > 0 =>
            /\ \A k \in 1..(Len(fire_log[p]) - 1) :
                  fire_log[p][k + 1] - fire_log[p][k] = 3
            /\ sim.tick - Last(fire_log[p]) <= 3

\* 0 <= shield <= shield_max and 0 <= current <= max for every Health of s.
HealthWithinBounds(s) ==
    \A id \in DOMAIN s.world :
        "health" \in DOMAIN s.world[id] =>
            LET health == s.world[id].health
            IN /\ 0 <= health.shield
               /\ health.shield <= health.shield_max
               /\ 0 <= health.current
               /\ health.current <= health.max

\* C7: for every entity with Health, 0 <= shield <= shield_max and
\* 0 <= current <= max before a step and after each system of the step.
C7_HealthWithinBoundsAfterEverySystem ==
    /\ HealthWithinBounds(sim)
    /\ HealthWithinBounds(AfterInputs(sim))
    /\ HealthWithinBounds(AfterMovement(sim))
    /\ HealthWithinBounds(AfterPhysics(sim, DtTick))
    /\ HealthWithinBounds(AfterLifetime(sim, DtTick))
    /\ HealthWithinBounds(AfterHealth(sim, DtTick))
    /\ HealthWithinBounds(AfterBoundaries(sim, DtTick))
    /\ HealthWithinBounds(step(sim, DtTick))

\* A ship has lived through steps taken after the shield's recharge delay
\* (3 s, 45 ticks) had passed.
C7_Witness ==
    /\ Ships(sim) # {}
    /\ Len(result) = 1
    /\ sim.tick > LateTicks + 2

-----------------------------------------------------------------------------
(* A projectile's whole life                                               *)

\* The steps of the long runs.
MaxDeepSteps == 48

\* The projectiles the client of the long runs asks for.
MaxShots == 1

\* The long runs: two players join at any time, the first sends in-order
\* frames with primary_fire set until its projectiles have appeared.
NextExpiry ==
    \/ \E p \in PlayerIds :
          /\ ShipIdsFrom(sim, p, 0) = <<>>
          /\ SpawnPlayerShip(p, SpawnPosition(p))
    \/ /\ RoomFor(1)
       /\ Len(fire_log[1]) < MaxShots
       /\ AddPlayerInput(1, InputData(NextSequence(1), 0, 0, TRUE, FALSE))
    \/ /\ sim.tick < IdleTicks + MaxDeepSteps
       /\ Step(DtTick)

SpecExpiry == Init /\ [][NextExpiry]_vars

\* C10: a projectile is despawned in the 45th step after the step that
\* spawned it, its body leaves the physics world in that step, and no later
\* snapshot lists an entity under its entity_id.
C10_ProjectileExpiry ==
    /\ \A e \in DOMAIN age : age[e] < 45
    /\ \A g \in gone :
          /\ g.steps = 45
          /\ ~BodyLive(sim, g.body)
          /\ ~Contains(sim, g.entity)
    /\ Len(result) = 1 =>
          \A g \in gone :
              \A k \in 1..Len(result[1].snapshot[1].entities) :
                  result[1].snapshot[1].entities[k].entity_id # g.entity[1]

-----------------------------------------------------------------------------
(* A burst of frames between two steps                                     *)

\* The longest burst of frames a client sends between two steps.
MaxBurst == 61

\* The frames accepted one per step before the burst.
MaxPlayed == 4

\* The frame a client sends under the stored sequence number q: consecutive
\* frames differ in thrust, in turn and in primary_fire.
Payload(q) ==
    LET n == q - U32(0)
    IN InputData(q, (n % 4) * 250, ((n % 3) - 1) * 1000, n % 2 = 1, FALSE)

\* The sequence numbers of the frames player p's ship was given since the
\* latest step.
AddedSequences(p) == {added[p][i].sequence : i \in 1..Len(added[p])}

\* The sequence numbers the client of the burst sends next, s being the
\* ship's last_processed_sequence: the first three in any order and with
\* gaps, then ascending; or descending from the end of the burst.
BurstChoices ==
    LET s == sim.world[Head(ShipIdsFrom(sim, 1, 0))].input_buffer.last_processed_sequence
        a == AddedSequences(1)
    IN {q \in (s + 1)..(s + 3) : q \notin a /\ a \subseteq (s + 1)..(s + 3)}
       \cup {q \in (s + 4)..(s + MaxBurst) : a = (s + 1)..(q - 1)}
       \cup {q \in (s + 1)..(s + MaxBurst) : a = (q + 1)..(s + MaxBurst)}

InitLatest ==
    /\ sim = spawn_player_ship(Idle(GameSimulationNew, IdleTicks), 1, SpawnPosition(1))
    /\ result = <<>>
    /\ fire_log = [p \in PlayerIds |-> <<>>]
    /\ age = EmptyMap
    /\ gone = {}
    /\ fire_held = [p \in PlayerIds |-> FALSE]
    /\ added = [p \in PlayerIds |-> <<>>]
    /\ drained = <<>>
    /\ spawned = [p \in PlayerIds |-> IF p = 1 THEN <<SpawnPosition(1)>> ELSE <<>>]
    /\ ib = InputBufferDefault
    /\ ib_panicked = FALSE
    /\ NoRooms
    /\ overflow_checks = FALSE

\* Whether the frames r.frames are exactly those with the sequence numbers
\* r.from + 1 .. r.from + k, each once.
IsBurst(r, k) ==
    /\ k >= 1
    /\ Len(r.frames) = k
    /\ {r.frames[i].sequence : i \in 1..k} = (r.from + 1)..(r.from + k)

\* Whether the latest call was a step that accepted a single frame, the
\* ship having accepted fewer than MaxPlayed frames before it.
PlayedOne ==
    IF Len(drained) = 0 THEN FALSE
    ELSE LET r == drained[1][1][1]
         IN /\ IsBurst(r, 1)
            /\ r.from < U32(MaxPlayed)

\* Up to MaxPlayed frames are accepted one per step; then one burst, and
\* the step that reads it.
NextLatest ==
    \/ \E q \in BurstChoices :
          /\ IF Len(result) = 0 THEN TRUE ELSE PlayedOne
          /\ AddPlayerInput(1, Payload(q))
    \/ /\ Len(result) = 0
       /\ added[1] # <<>>
       /\ Step(DtTick)

SpecLatest == InitLatest /\ [][NextLatest]_vars

\* What the claim says of a step that read the burst r of k frames, b being
\* the ship's buffer after the step.
LatestWins(r, k, b) ==
    LET last == CHOOSE i \in 1..k : r.frames[i].sequence = r.from + k
    IN /\ r.thrust_value = r.frames[last].thrust
       /\ r.turn_value = r.frames[last].turn
       /\ r.primary_fire = r.frames[last].primary_fire
       /\ r.discarded_count = k - 1
       /\ b.last_processed_sequence = r.from + k

\* C11 as stated: if a player's frames s+1 .. s+k (k >= 1, s the ship's
\* last_processed_sequence) are all added between two steps, in any order,
\* the next step applies only the thrust, turn and fire of frame s+k,
\* discards k-1 frames and leaves last_processed_sequence = s+k.
C11_LatestWins ==
    Len(drained) = 1 =>
        \A p \in PlayerIds :
            drained[1][p] # <<>> =>
                LET r == drained[1][p][1]
                IN IsBurst(r, Len(r.frames)) =>
                      LatestWins(r, Len(r.frames),
                                 sim.world[Head(ShipIdsFrom(sim, p, 0))].input_buffer)

\* C11 amended: the same for bursts of at most 60 frames, the capacity of
\* the buffer.
C11_LatestWinsWithinCapacity ==
    Len(drained) = 1 =>
        \A p \in PlayerIds :
            drained[1][p] # <<>> =>
                LET r == drained[1][p][1]
                IN IsBurst(r, Len(r.frames)) /\ Len(r.frames) <= max_buffer_size =>
                      LatestWins(r, Len(r.frames),
                                 sim.world[Head(ShipIdsFrom(sim, p, 0))].input_buffer)

\* A step has read a burst of three frames that arrived out of order, from a
\* ship that had accepted frames before.
C11_Witness ==
    /\ Len(drained) = 1
    /\ drained[1][1] # <<>>
    /\ LET r == drained[1][1][1]
       IN /\ IsBurst(r, 3)
          /\ r.from = U32(MaxPlayed)
          /\ r.frames[1].sequence > r.frames[3].sequence
          /\ r.discarded_count = 2

-----------------------------------------------------------------------------
(* The boundary system and the physics bodies                              *)

\* The body of the live entity with the given id.
BodyOf(s, id) == s.bodies[s.entity_to_body[EntityOf(s, id)][1]]

\* C12: whenever the boundary system clamps an entity that has a physics
\* body, the body's translation becomes the clamped position and its linear
\* velocity is halved; and when step returns, the Transform position of
\* every entity with a body equals the body's translation.
C12_ClampReachesBody ==
    /\ LET before == AfterHealth(sim, DtTick)
           after == apply_boundaries(before)
       IN \A id \in DOMAIN before.world :
             LET position == before.world[id].transform.position
                 clamped == ClampedPosition(position, before.bounds)
             IN HasBody(before, id) /\ clamped # position =>
                   /\ after.world[id].transform.position = clamped
                   /\ BodyOf(after, id).translation = clamped
                   /\ BodyOf(after, id).linvel
                         = <<FMulQ(BodyOf(before, id).linvel[1], 1, 2),
                             FMulQ(BodyOf(before, id).linvel[2], 1, 2)>>
    /\ Len(result) = 1 =>
          \A id \in DOMAIN sim.world :
              HasBody(sim, id) =>
                  sim.world[id].transform.position = BodyOf(sim, id).translation

\* A step has returned with a projectile held at the right wall at less than
\* its launch speed, next to a ship held at the left wall.
C12_Witness ==
    /\ Len(result) = 1
    /\ \E id \in Projectiles(sim) :
          /\ sim.world[id].transform.position[1] = 960000
          /\ BodyOf(sim, id).linvel[1] > 0
          /\ BodyOf(sim, id).linvel[1] < 300000
    /\ \E id \in Ships(sim) :
          /\ sim.world[id].transform.position[1] = -960000
          /\ spawned[sim.world[id].player.id] = <<SpawnPosition(2)>>

-----------------------------------------------------------------------------
(* One ship, no inputs                                                     *)

\* The steps of the idle runs.
MaxIdleSteps == 15

\* Where the ship of the idle runs is spawned: on the circle of
\* Room::get_spawn_position, at the centre, in two corners of the arena and
\* next to its right wall.
IdlePositions ==
    {<<100000, 0>>, <<70711, 70711>>, <<0, 100000>>, <<-70711, 70711>>,
     <<0, 0>>, <<960000, 540000>>, <<-960000, -540000>>, <<959000, 0>>}

InitIdle ==
    /\ sim = GameSimulationNew
    /\ result = <<>>
    /\ fire_log = [p \in PlayerIds |-> <<>>]
    /\ age = EmptyMap
    /\ gone = {}
    /\ fire_held = [p \in PlayerIds |-> FALSE]
    /\ added = [p \in PlayerIds |-> <<>>]
    /\ drained = <<>>
    /\ spawned = [p \in PlayerIds |-> <<>>]
    /\ ib = InputBufferDefault
    /\ ib_panicked = FALSE
    /\ NoRooms
    /\ overflow_checks = FALSE

\* A new simulation gets one ship, then only steps.
NextIdle ==
    \/ \E p \in PlayerIds, pos \in IdlePositions :
          /\ sim.tick = 0
          /\ Ships(sim) = {}
          /\ SpawnPlayerShip(p, pos)
    \/ /\ Ships(sim) # {}
       /\ sim.tick < MaxIdleSteps
       /\ Step(DtTick)

SpecIdle == InitIdle /\ [][NextIdle]_vars

\* C13: after one ship is spawned inside the arena of a new simulation, each
\* of the following steps without inputs (the n-th leaves tick = n, up to 15)
\* returns a snapshot that lists the ship, and leaves the ship at its spawn
\* position with zero velocity and a shield of 50, and no projectile.
C13_SpawnAndIdle ==
    Len(result) = 1 =>
        /\ result[1].tick = sim.tick
        /\ sim.tick <= MaxIdleSteps
        /\ Projectiles(sim) = {}
        /\ \A p \in PlayerIds :
              spawned[p] # <<>> =>
                  /\ Len(ShipIdsFrom(sim, p, 0)) = 1
                  /\ LET id == Head(ShipIdsFrom(sim, p, 0))
                         c == sim.world[id]
                     IN /\ c.transform.position = spawned[p][1]
                        /\ c.velocity = [linear |-> <<0, 0>>, angular |-> 0]
                        /\ c.health.shield = 50000
                        /\ \E k \in 1..Len(result[1].snapshot[1].entities) :
                              LET e == result[1].snapshot[1].entities[k]
                              IN /\ e.entity_id = id
                                 /\ e.entity_type = [tag |-> "Player", id |-> p]
                                 /\ e.transform.position = spawned[p][1]

\* The fifteenth step has returned, the ship having been spawned on the
\* spawn circle.
C13_Witness ==
    /\ Len(result) = 1
    /\ sim.tick = 15
    /\ result[1].snapshot[1].tick = 15
    /\ \E p \in PlayerIds : spawned[p] = <<<<70711, 70711>>>>

-----------------------------------------------------------------------------
(* The members of a snapshot                                               *)

\* C14: the snapshot a step returns has exactly one entry for each live
\* entity with (Transform, Player) or (Transform, Projectile), built from
\* that entity's components, and none for an entity that is not live; its
\* entity_id values are pairwise distinct; a Player entry carries the ship
\* configuration and a Projectile entry carries none.
C14_SnapshotMembership ==
    Len(result) = 1 =>
        LET entities == result[1].snapshot[1].entities
        IN /\ {entities[k].entity_id : k \in 1..Len(entities)}
                 = Ships(sim) \cup Projectiles(sim)
           /\ Len(entities) = Cardinality(Ships(sim) \cup Projectiles(sim))
           /\ \A j, k \in 1..Len(entities) :
                 j # k => entities[j].entity_id # entities[k].entity_id
           /\ \A k \in 1..Len(entities) :
                 LET e == entities[k]
                     c == sim.world[e.entity_id]
                 IN /\ Contains(sim, EntityOf(sim, e.entity_id))
                    /\ e.transform = c.transform
                    /\ e.velocity = c.velocity
                    /\ IF c.kind = "ship"
                       THEN /\ e.entity_type = [tag |-> "Player", id |-> c.player.id]
                            /\ e.ship = <<c.ship>>
                            /\ e.health = c.health
                       ELSE /\ e.entity_type = [tag |-> "Projectile",
                                                id |-> c.projectile.owner_id]
                            /\ e.ship = <<>>

\* A step has returned a snapshot with a Player entry and a Projectile
\* entry, one of them under an id that a despawned entity had before.
C14_Witness ==
    /\ Len(result) = 1
    /\ LET entities == result[1].snapshot[1].entities
       IN /\ \E k \in 1..Len(entities) : entities[k].entity_type.tag = "Player"
          /\ \E k \in 1..Len(entities) : entities[k].entity_type.tag = "Projectile"
          /\ \E k \in 1..Len(entities) : sim.meta[entities[k].entity_id + 1] > 1

-----------------------------------------------------------------------------
(* The room directory and its handlers (main.rs)                           *)

\* cleanup_inactive_players: a player last seen more than this many seconds
\* ago is removed.
InactiveSecs == 120

\* cleanup_rooms_task: a room empty and inactive for more than this many
\* seconds is removed.
EmptyRoomSecs == 300

\* The period, in seconds, of the cleanup task's timer.
CleanupInterval == 60

\* Room::new at time t (the code is the key of the directory).
RoomNew(t) ==
    [players |-> EmptyMap, last_activity |-> t,
     simulation |-> GameSimulationNew, player_entities |-> EmptyMap]

\* (cos a * 100, sin a * 100) for the angle a = i * 2 pi / 8, i in 0..7.
SpawnSlot(i) ==
    << <<100000, 0>>, <<70711, 70711>>, <<0, 100000>>, <<-70711, 70711>>,
       <<-100000, 0>>, <<-70711, -70711>>, <<0, -100000>>, <<70711, -70711>> >>[i + 1]

\* Room::get_spawn_position: radius 100 at the angle players.len() * 2 pi / 8.
get_spawn_position(room) == SpawnSlot(Cardinality(DOMAIN room.players) % 8)

\* A plausible slip of add_player: the test is `>` for `>=`.
add_player_one_more(room, player_id, t) ==
    IF Cardinality(DOMAIN room.players) > MaxPlayers
    THEN [ok |-> FALSE, room |-> room]
    ELSE [ok |-> TRUE,
          room |-> [room EXCEPT
                      !.simulation = spawn_player_ship(@, player_id,
                                                       get_spawn_position(room)),
                      !.player_entities =
                          MapInsert(@, player_id, NextEntity(room.simulation)),
                      !.players = MapInsert(@, player_id, [last_seen |-> t]),
                      !.last_activity = t]]

\* Room::add_player for a Player created at time t: [ok, room].
add_player(room, player_id, t) ==
    IF Cardinality(DOMAIN room.players) >= MaxPlayers
    THEN [ok |-> FALSE, room |-> room]
    ELSE [ok |-> TRUE,
          room |-> [room EXCEPT
                      !.simulation = spawn_player_ship(@, player_id,
                                                       get_spawn_position(room)),
                      !.player_entities =
                          MapInsert(@, player_id, NextEntity(room.simulation)),
                      !.players = MapInsert(@, player_id, [last_seen |-> t]),
                      !.last_activity = t]]

\* Room::remove_player at time t.
remove_player(room, player_id, t) ==
    IF player_id \in DOMAIN room.players
    THEN [room EXCEPT
            !.players = MapRemove(@, player_id),
            !.simulation = IF player_id \in DOMAIN room.player_entities
                           THEN despawn_entity(@, room.player_entities[player_id])
                           ELSE @,
            !.player_entities = MapRemove(@, player_id),
            !.last_activity = t]
    ELSE room

\* The players cleanup_inactive_players finds inactive at time t.
InactivePlayers(room, t) ==
    {c \in DOMAIN room.players : room.players[c].last_seen < t - InactiveSecs}

RECURSIVE RemoveAll(_, _, _)
\* The second loop of cleanup_inactive_players, in ascending player id.
RemoveAll(room, ids, t) ==
    IF ids = {} THEN room
    ELSE LET c == CHOOSE x \in ids : \A y \in ids : x <= y
         IN RemoveAll(remove_player(room, c, t), ids \ {c}, t)

\* Room::cleanup_inactive_players at time t.
cleanup_inactive_players(room, t) == RemoveAll(room, InactivePlayers(room, t), t)

\* leave_room on the directory rs at time t.
leave_room(rs, room_code, player_id, t) ==
    IF room_code \in DOMAIN rs
    THEN LET room == remove_player(rs[room_code], player_id, t)
         IN IF DOMAIN room.players = {}
            THEN MapRemove(rs, room_code)
            ELSE [rs EXCEPT ![room_code] = room]
    ELSE rs

\* The body of cleanup_rooms_task on the directory rs at time t.
cleanup_rooms(rs, t) ==
    LET cleaned == [r \in DOMAIN rs |-> cleanup_inactive_players(rs[r], t)]
        rooms_to_remove == {r \in DOMAIN rs :
                               /\ DOMAIN cleaned[r].players = {}
                               /\ t - cleaned[r].last_activity > EmptyRoomSecs}
    IN [r \in DOMAIN rs \ rooms_to_remove |-> cleaned[r]]

\* serde_json::from_slice::<InputData> on the data of an Input message, the
\* bytes being held as the JSON object they spell (or as no object): every
\* field of InputData is required, other fields are ignored.
Decode(data) ==
    LET fields == {"sequence", "timestamp", "thrust", "turn",
                   "primary_fire", "secondary_fire"}
    IN IF fields \subseteq DOMAIN data
       THEN <<[f \in fields |-> data[f]]>>
       ELSE <<>>

\* The directory becomes rs at time t through the operation e, which
\* removed the given players; the history is brought up to date.
Directory(e, rs, t, removed_players) ==
    /\ rooms' = rs
    /\ event' = [e EXCEPT
          !.removed_players = removed_players,
          !.removed_rooms =
              {[code |-> r,
                players |-> Cardinality(DOMAIN rooms[r].players),
                empty_for |-> IF DOMAIN rooms[r].players = {}
                              THEN t - empty_since[r] ELSE 0] :
               r \in DOMAIN rooms \ DOMAIN rs}]
    /\ empty_since' =
          [r \in RoomCodes |->
              IF /\ r \in DOMAIN rs
                 /\ DOMAIN rs[r].players = {}
                 /\ (r \notin DOMAIN rooms \/ DOMAIN rooms[r].players # {})
              THEN t ELSE empty_since[r]]

\* An operation named op, by connection c, with the given data.
Event(op, c, data) ==
    [op |-> op, conn |-> c, data |-> data, removed_players |-> {}, removed_rooms |-> {}]

\* create_room: a new room under a code not used before, and its task.
CreateRoom(r) ==
    /\ r \notin DOMAIN rooms
    /\ task[r] = "none"
    /\ Directory(Event("create_room", 0, <<>>), MapInsert(rooms, r, RoomNew(clock)),
                 clock, {})
    /\ task' = [task EXCEPT ![r] = "running"]
    /\ UNCHANGED <<clock, conn, lock, pc, simVars, bufVars, sent>>

\* handle_socket on ClientMessage::Join: handle_join and its result.
HandleJoin(c, r) ==
    /\ conn[c].status = "open"
    /\ LET a == IF r \in DOMAIN rooms
                THEN add_player(rooms[r], c, clock)
                ELSE [ok |-> FALSE, room |-> <<>>]
       IN /\ Directory(Event("join", c, <<r>>),
                       IF a.ok THEN [rooms EXCEPT ![r] = a.room] ELSE rooms,
                       clock, {})
          /\ conn' = [conn EXCEPT
                ![c].current_room = IF a.ok THEN <<r>> ELSE <<>>,
                ![c].reply = IF a.ok THEN "RoomJoined"
                             ELSE IF r \in DOMAIN rooms THEN "Room is full"
                             ELSE "Room not found",
                ![c].last_message = clock]
    /\ UNCHANGED <<clock, task, lock, pc, simVars, bufVars, sent>>

\* handle_socket on ClientMessage::Leave (leave_room, then the loop ends) and
\* on the end of the loop by a Close frame, an error or after a Leave
\* (leave_room as the clean-up on disconnect).
LeaveOrClose(c, message) ==
    /\ \/ conn[c].status = "open"
       \/ conn[c].status = "closing" /\ message = "Close"
    /\ Directory(Event(message, c, <<>>),
                 IF conn[c].current_room = <<>> THEN rooms
                 ELSE leave_room(rooms, conn[c].current_room[1], c, clock),
                 clock, {})
    /\ conn' = [conn EXCEPT
          ![c].status = IF message = "Leave" THEN "closing" ELSE "closed",
          ![c].last_message = IF conn[c].status = "open" THEN clock ELSE @]
    /\ UNCHANGED <<clock, task, lock, pc, simVars, bufVars, sent>>

\* handle_socket on ClientMessage::Input: handle_input when the connection
\* has a current room.
HandleInput(c, data) ==
    /\ conn[c].status = "open"
    /\ Directory(Event("input", c, data),
                 IF /\ conn[c].current_room # <<>>
                    /\ conn[c].current_room[1] \in DOMAIN rooms
                    /\ Decode(data) # <<>>
                 THEN [rooms EXCEPT ![conn[c].current_room[1]].simulation =
                          add_player_input(@, c, Decode(data)[1])]
                 ELSE rooms,
                 clock, {})
    /\ conn' = [conn EXCEPT ![c].last_message = clock]
    /\ UNCHANGED <<clock, task, lock, pc, simVars, bufVars, sent>>

\* handle_socket on ClientMessage::Ping: update_player_activity when the
\* connection has a current room.
Ping(c) ==
    /\ conn[c].status = "open"
    /\ Directory(Event("ping", c, <<>>),
                 IF /\ conn[c].current_room # <<>>
                    /\ conn[c].current_room[1] \in DOMAIN rooms
                    /\ c \in DOMAIN rooms[conn[c].current_room[1]].players
                 THEN [rooms EXCEPT
                          ![conn[c].current_room[1]].players[c].last_seen = clock]
                 ELSE rooms,
                 clock, {})
    /\ conn' = [conn EXCEPT ![c].last_message = clock]
    /\ UNCHANGED <<clock, task, lock, pc, simVars, bufVars, sent>>

\* The cleanup task: its timer fires CleanupInterval seconds after the last
\* time and cleanup_rooms_task runs.
CleanupRoomsTask ==
    LET t == clock + CleanupInterval
    IN /\ clock' = t
       /\ Directory(Event("cleanup", 0, <<>>), cleanup_rooms(rooms, t), t,
                    {[player |-> c, silent_for |-> t - conn[c].last_message] :
                       c \in UNION {InactivePlayers(rooms[r], t) : r \in DOMAIN rooms}})
       /\ UNCHANGED <<conn, task, lock, pc, simVars, bufVars, sent>>

\* A plausible slip of the broadcast: a snapshot that failed to serialize
\* is announced all the same.
Broadcast_unserialized(log, room, stepped, serialized) ==
    IF DOMAIN room.players = {} THEN log
    ELSE Append(log, generate_snapshot(stepped).sequence)

\* What one turn of run_room_simulation hands to the players' channels when
\* it finds the room as `room` and its step leaves the simulation stepped:
\* nothing for an empty room and nothing when serde_json::to_vec fails, else
\* one Snapshot message with the snapshot's sequence number.
Broadcast(log, room, stepped, serialized) ==
    IF DOMAIN room.players = {} \/ ~serialized THEN log
    ELSE Append(log, generate_snapshot(stepped).sequence)

\* A plausible slip of run_room_simulation: the `break` is missing, the task
\* of a removed room goes on waiting for ticks.
RunRoomSimulation_no_break(r, max_tick, serialized) ==
    /\ task[r] = "running"
    /\ IF r \in DOMAIN rooms
       THEN /\ DOMAIN rooms[r].players # {} => rooms[r].simulation.tick < max_tick
            /\ Directory(Event("tick", 0, <<r>>),
                         IF DOMAIN rooms[r].players = {} THEN rooms
                         ELSE [rooms EXCEPT ![r].simulation = step(@, DtTick)],
                         clock, {})
            /\ sent' = [sent EXCEPT ![r] = Broadcast(@, rooms[r], rooms'[r].simulation,
                                                     serialized)]
       ELSE /\ Directory(Event("tick", 0, <<r>>), rooms, clock, {})
            /\ UNCHANGED sent
    /\ UNCHANGED <<task, clock, conn, lock, pc, simVars, bufVars>>

\* One turn of the loop of run_room_simulation for the room code r, at most
\* max_tick steps being modelled: the room is missing (break), empty
\* (continue), or is stepped, and the snapshot is broadcast unless its
\* serialization fails (continue).
RunRoomSimulation(r, max_tick, serialized) ==
    /\ task[r] = "running"
    /\ IF r \in DOMAIN rooms
       THEN /\ DOMAIN rooms[r].players # {} => rooms[r].simulation.tick < max_tick
            /\ Directory(Event("tick", 0, <<r>>),
                         IF DOMAIN rooms[r].players = {} THEN rooms
                         ELSE [rooms EXCEPT ![r].simulation = step(@, DtTick)],
                         clock, {})
            /\ sent' = [sent EXCEPT ![r] = Broadcast(@, rooms[r], rooms'[r].simulation,
                                                     serialized)]
            /\ UNCHANGED task
       ELSE /\ Directory(Event("tick", 0, <<r>>), rooms, clock, {})
            /\ task' = [task EXCEPT ![r] = "exited"]
            /\ UNCHANGED sent
    /\ UNCHANGED <<clock, conn, lock, pc, simVars, bufVars>>

-----------------------------------------------------------------------------
(* A room filling up                                                       *)

\* The steps of the room that fills up.
MaxFullSteps == 1

\* Connections 1, 2, ... send Join one after the other; the last of them
\* sends it again while it is in no room, and the first of them again when
\* the room is full; the last three may close; the room's task runs.
NextFull ==
    \/ \E r \in RoomCodes : CreateRoom(r)
    \/ \E c \in Conns, r \in RoomCodes :
          /\ IF c = 1 THEN TRUE ELSE conn[c - 1].reply # ""
          /\ \/ conn[c].reply = ""
             \/ c > MaxPlayers /\ conn[c].current_room = <<>>
             \/ /\ c = 1
                /\ conn[c].current_room # <<>>
                /\ r \in DOMAIN rooms
                /\ Cardinality(DOMAIN rooms[r].players) = MaxPlayers
          /\ HandleJoin(c, r)
    \/ \E c \in Conns :
          /\ c >= MaxPlayers - 1
          /\ conn[c].reply # ""
          /\ LeaveOrClose(c, "Close")
    \/ \E r \in RoomCodes : RunRoomSimulation(r, MaxFullSteps, TRUE)

SpecFull == InitIdle /\ [][NextFull]_vars

\* C15: a room never holds more than 10 players; a Join to a room that
\* holds 10 players is answered with the Error "Room is full" and leaves the
\* room (its players, its player-to-entity map, its simulation) unchanged.
C15_RoomCapacity ==
    [][/\ \A r \in DOMAIN rooms' :
             Cardinality(DOMAIN rooms'[r].players) <= MaxPlayers
       /\ \A c \in Conns, r \in DOMAIN rooms :
             /\ event' = Event("join", c, <<r>>)
             /\ Cardinality(DOMAIN rooms[r].players) = MaxPlayers
             => /\ conn'[c].reply = "Room is full"
                /\ rooms' = rooms]_vars

\* The eleventh connection has been refused by a room of ten players, in
\* which ten ships fly.
C15_Witness ==
    /\ conn[MaxPlayers + 1].reply = "Room is full"
    /\ event = Event("join", MaxPlayers + 1, <<1>>)
    /\ Cardinality(DOMAIN rooms[1].players) = MaxPlayers
    /\ Cardinality(Ships(rooms[1].simulation)) = MaxPlayers

-----------------------------------------------------------------------------
(* A room over time                                                        *)

\* The cleanup task's timer fires this many times.
MaxCleanups == 6

\* The steps of the room in these runs.
MaxRoomSteps == 1

\* The connections of these runs.
RoomConns == {1, 2}

\* The connections that send Input, Ping and Leave; the others only join
\* and close.
Talkers == {1}

\* The data of the Input messages: a frame, a frame without its turn, and
\* bytes that are no JSON object.
InputChoices ==
    LET frame == InputData(U32(1), 1000, 0, FALSE, FALSE)
    IN {frame, [f \in DOMAIN frame \ {"turn"} |-> frame[f]], [text |-> "garbage"]}

\* handle_input would hand the data of connection c to no ship: no current
\* room, a room code not in the directory, data that do not decode, or no
\* ship of that player id.
Dropped(c, data) ==
    IF conn[c].current_room = <<>> THEN TRUE
    ELSE IF conn[c].current_room[1] \notin DOMAIN rooms THEN TRUE
    ELSE IF Decode(data) = <<>> THEN TRUE
    ELSE ShipIdsFrom(rooms[conn[c].current_room[1]].simulation, c, 0) = <<>>

\* Two connections join a room once each and close at any time, the first
\* also sends Input, Ping and Leave; the cleanup task runs every
\* CleanupInterval seconds and the room's task steps the simulation.  A
\* frame is delivered to a ship whose buffer is empty.
NextRoom ==
    \/ \E r \in RoomCodes : CreateRoom(r)
    \/ \E c \in RoomConns, r \in RoomCodes :
          /\ conn[c].reply = ""
          /\ HandleJoin(c, r)
    \/ \E c \in RoomConns, message \in {"Leave", "Close"} :
          /\ c \in Talkers \/ message = "Close"
          /\ LeaveOrClose(c, message)
    \/ \E c \in Talkers, data \in InputChoices :
          /\ IF Dropped(c, data) THEN TRUE
             ELSE LET s == rooms[conn[c].current_room[1]].simulation
                  IN s.world[Head(ShipIdsFrom(s, c, 0))].input_buffer.buffer = <<>>
          /\ HandleInput(c, data)
    \/ \E c \in Talkers : Ping(c)
    \/ /\ clock < MaxCleanups * CleanupInterval
       /\ CleanupRoomsTask
    \/ \E r \in RoomCodes : RunRoomSimulation(r, MaxRoomSteps, TRUE)

SpecRoom == InitIdle /\ [][NextRoom]_vars

\* C16: an Input message that handle_input hands to no ship (its data do not
\* decode to a frame, its room code is not in the directory, or its player
\* id has no ship in the simulation) leaves the directory as it was, every
\* input buffer, every last_processed_sequence and every entity of every
\* room included, and the connection and the rooms' tasks go on.
C16_BadInputDropped ==
    [][event'.op = "input" /\ Dropped(event'.conn, event'.data)
          => /\ rooms' = rooms
             /\ task' = task
             /\ conn'[event'.conn].status = "open"]_vars

\* A connection whose ship was removed for inactivity has sent a frame that
\* decodes, to a room that has stepped and where another player's ship flies.
C16_Witness ==
    /\ event.op = "input"
    /\ Decode(event.data) # <<>>
    /\ conn[event.conn].current_room = <<1>>
    /\ 1 \in DOMAIN rooms
    /\ ShipIdsFrom(rooms[1].simulation, event.conn, 0) = <<>>
    /\ Ships(rooms[1].simulation) # {}
    /\ rooms[1].simulation.tick = MaxRoomSteps

\* C17: the cleanup removes a player for inactivity only if the player's
\* connection delivered no client message of any kind for more than 120 s.
C17_RemovedOnlyWhenSilent ==
    event.op = "cleanup"
        => \A x \in event.removed_players : x.silent_for > InactiveSecs

\* C18: an operation removes a room from the directory only if the room has
\* been empty for more than 300 s (a room that had a player when the
\* operation began has been empty for 0 s).
C18_RoomRemovedOnlyWhenLongEmpty ==
    \A x \in event.removed_rooms : x.empty_for > EmptyRoomSecs

-----------------------------------------------------------------------------
(* The end of a room's simulation task                                     *)

\* A connection joins and closes, the cleanup task runs and the room's
\* task takes its turns.
NextTask ==
    \/ \E r \in RoomCodes : CreateRoom(r)
    \/ \E c \in Talkers, r \in RoomCodes :
          /\ conn[c].reply = ""
          /\ HandleJoin(c, r)
    \/ \E c \in Talkers : LeaveOrClose(c, "Close")
    \/ /\ clock < MaxCleanups * CleanupInterval
       /\ CleanupRoomsTask
    \/ \E r \in RoomCodes : RunRoomSimulation(r, MaxRoomSteps, TRUE)

\* The turn of run_room_simulation that finds no room under its code.
ObserveMissingRoom(r) ==
    /\ r \notin DOMAIN rooms
    /\ RunRoomSimulation(r, MaxRoomSteps, TRUE)

\* The timer of every room's task keeps firing (tokio's interval) and the
\* task gets the lock (every holder releases it at the end of its handler):
\* a task whose room stays missing takes its turn.
SpecTask ==
    /\ InitIdle
    /\ [][NextTask]_vars
    /\ \A r \in RoomCodes : WF_vars(ObserveMissingRoom(r))

-----------------------------------------------------------------------------
(* The directory's lock                                                    *)

\* The steps of the room in these runs.
MaxLockSteps == 1

\* What a room is between two operations: every player has its ship, every
\* ship its player.
Consistent(room) ==
    /\ DOMAIN room.player_entities = DOMAIN room.players
    /\ \A c \in DOMAIN room.players :
          /\ Contains(room.simulation, room.player_entities[c])
          /\ room.simulation.world[room.player_entities[c][1]].kind = "ship"
          /\ room.simulation.world[room.player_entities[c][1]].player.id = c
    /\ \A id \in Ships(room.simulation) :
          room.simulation.world[id].player.id \in DOMAIN room.players

\* A plausible slip: the operation starts without waiting for the lock.
Acquire_without_lock(p, op) ==
    /\ pc[p] = "idle"
    /\ lock' = <<p>>
    /\ pc' = [pc EXCEPT ![p] = op]
    /\ UNCHANGED <<rooms, clock, conn, task, event, empty_since, simVars, bufVars, sent>>

\* state.rooms.lock().unwrap() at the head of the operation op of process p.
Acquire(p, op) ==
    /\ pc[p] = "idle"
    /\ lock = <<>>
    /\ lock' = <<p>>
    /\ pc' = [pc EXCEPT ![p] = op]
    /\ UNCHANGED <<rooms, clock, conn, task, event, empty_since, simVars, bufVars, sent>>

\* A plausible slip: the guard outlives the operation and is still held
\* when the task awaits again.
Release_keeps_guard(p) ==
    /\ pc[p] = "unlock"
    /\ pc' = [pc EXCEPT ![p] = "idle"]
    /\ UNCHANGED <<lock, rooms, clock, conn, task, event, empty_since, simVars, bufVars, sent>>

\* The guard is dropped at the end of the operation: a process at "idle" is
\* suspended in an await (the tick timer, the socket's next message).
Release(p) ==
    /\ pc[p] = "unlock"
    /\ lock' = <<>>
    /\ pc' = [pc EXCEPT ![p] = "idle"]
    /\ UNCHANGED <<rooms, clock, conn, task, event, empty_since, simVars, bufVars, sent>>

\* Process p goes on to the label l, the directory becoming rs.
Goto(p, l, rs) ==
    /\ pc' = [pc EXCEPT ![p] = l]
    /\ rooms' = rs
    /\ UNCHANGED <<clock, lock, event, empty_since, simVars, bufVars, sent>>

\* handle_join and Room::add_player, statement by statement: the test of the
\* room and its size, spawn_player_ship, player_entities.insert,
\* players.insert with last_activity and the reply.
JoinStep(c, r) ==
    LET p == <<"conn", c>>
    IN /\ UNCHANGED task
       /\ \/ /\ pc[p] = "join"
             /\ IF r \in DOMAIN rooms
                THEN IF Cardinality(DOMAIN rooms[r].players) >= MaxPlayers
                     THEN /\ Goto(p, "unlock", rooms)
                          /\ conn' = [conn EXCEPT ![c].reply = "Room is full"]
                     ELSE /\ Goto(p, "join_map",
                                  [rooms EXCEPT ![r].simulation =
                                      spawn_player_ship(@, c, get_spawn_position(rooms[r]))])
                          /\ UNCHANGED conn
                ELSE /\ Goto(p, "unlock", rooms)
                     /\ conn' = [conn EXCEPT ![c].reply = "Room not found"]
          \/ /\ pc[p] = "join_map"
             /\ r \in DOMAIN rooms
             /\ Goto(p, "join_insert",
                     [rooms EXCEPT ![r].player_entities =
                         MapInsert(@, c, EntityOf(rooms[r].simulation,
                                          Head(ShipIdsFrom(rooms[r].simulation, c, 0))))])
             /\ UNCHANGED conn
          \/ /\ pc[p] = "join_insert"
             /\ r \in DOMAIN rooms
             /\ Goto(p, "unlock",
                     [rooms EXCEPT ![r].players = MapInsert(@, c, [last_seen |-> clock]),
                                   ![r].last_activity = clock])
             /\ conn' = [conn EXCEPT ![c].reply = "RoomJoined",
                                     ![c].current_room = <<r>>]

\* leave_room and Room::remove_player, statement by statement: players.remove,
\* player_entities.remove with despawn_entity and last_activity, and the
\* removal of the empty room; the connection's loop ends.
LeaveStep(c) ==
    LET p == <<"conn", c>>
        r == conn[c].current_room[1]
    IN /\ UNCHANGED task
       /\ \/ /\ pc[p] = "leave"
             /\ IF r \notin DOMAIN rooms THEN Goto(p, "leave_done", rooms)
                ELSE IF c \in DOMAIN rooms[r].players
                THEN Goto(p, "leave_unmap", [rooms EXCEPT ![r].players = MapRemove(@, c)])
                ELSE Goto(p, "leave_empty", rooms)
             /\ UNCHANGED conn
          \/ /\ pc[p] = "leave_unmap"
             /\ Goto(p, "leave_empty",
                     [rooms EXCEPT
                        ![r].simulation = IF c \in DOMAIN rooms[r].player_entities
                                          THEN despawn_entity(@, rooms[r].player_entities[c])
                                          ELSE @,
                        ![r].player_entities = MapRemove(@, c),
                        ![r].last_activity = clock])
             /\ UNCHANGED conn
          \/ /\ pc[p] = "leave_empty"
             /\ Goto(p, "leave_done",
                     IF DOMAIN rooms[r].players = {} THEN MapRemove(rooms, r) ELSE rooms)
             /\ UNCHANGED conn
          \/ /\ pc[p] = "leave_done"
             /\ Goto(p, "unlock", rooms)
             /\ conn' = [conn EXCEPT ![c].status = "closed"]

\* handle_input under the lock.
InputStep(c, data) ==
    LET p == <<"conn", c>>
        r == conn[c].current_room[1]
    IN /\ pc[p] = "input"
       /\ Goto(p, "unlock",
               IF r \in DOMAIN rooms /\ Decode(data) # <<>>
               THEN [rooms EXCEPT ![r].simulation = add_player_input(@, c, Decode(data)[1])]
               ELSE rooms)
       /\ UNCHANGED <<conn, task>>

\* One turn of run_room_simulation under the lock: the exit when the room is
\* missing, the skip of an empty room, or the step of a room with players
\* and the broadcast of its snapshot, skipped when the serialization fails.
TickStep(r, serialized) ==
    LET p == <<"sim", r>>
    IN /\ pc[p] = "tick"
       /\ pc' = [pc EXCEPT ![p] = "unlock"]
       /\ rooms' = IF r \in DOMAIN rooms
                   THEN IF DOMAIN rooms[r].players = {} THEN rooms
                        ELSE [rooms EXCEPT ![r].simulation = step(@, DtTick)]
                   ELSE rooms
       /\ sent' = IF r \in DOMAIN rooms
                  THEN [sent EXCEPT ![r] = Broadcast(@, rooms[r], rooms'[r].simulation,
                                                    serialized)]
                  ELSE sent
       /\ task' = [task EXCEPT ![r] = IF r \in DOMAIN rooms THEN @ ELSE "exited"]
       /\ UNCHANGED <<clock, conn, lock, event, empty_since, simVars, bufVars>>

\* create_room under the lock: rooms.insert and the spawn of the room's task.
CreateStep(r) ==
    LET p == <<"http", 0>>
    IN /\ pc[p] = "create"
       /\ Goto(p, "unlock", MapInsert(rooms, r, RoomNew(clock)))
       /\ task' = [task EXCEPT ![r] = "running"]
       /\ UNCHANGED conn

\* The tasks of two connections, of the room and of POST /create-room run
\* side by side, each operation statement by statement.
NextLock ==
    \/ \E r \in RoomCodes :
          /\ task[r] = "none"
          /\ Acquire(<<"http", 0>>, "create")
    \/ \E r \in RoomCodes : CreateStep(r)
    \/ \E c \in RoomConns :
          /\ conn[c].status = "open"
          /\ \/ conn[c].reply = "" /\ Acquire(<<"conn", c>>, "join")
             \/ conn[c].current_room # <<>> /\ Acquire(<<"conn", c>>, "leave")
             \/ /\ conn[c].current_room # <<>>
                /\ c \in Talkers
                /\ Acquire(<<"conn", c>>, "input")
    \/ \E c \in RoomConns, r \in RoomCodes : JoinStep(c, r)
    \/ \E c \in RoomConns : LeaveStep(c)
    \/ \E c \in RoomConns, data \in InputChoices :
          /\ IF Dropped(c, data) THEN TRUE
             ELSE LET s == rooms[conn[c].current_room[1]].simulation
                  IN s.world[Head(ShipIdsFrom(s, c, 0))].input_buffer.buffer = <<>>
          /\ InputStep(c, data)
    \/ \E r \in RoomCodes :
          /\ task[r] = "running"
          /\ r \in DOMAIN rooms => rooms[r].simulation.tick < MaxLockSteps
          /\ Acquire(<<"sim", r>>, "tick")
    \/ \E r \in RoomCodes, serialized \in BOOLEAN : TickStep(r, serialized)
    \/ \E p \in Procs : Release(p)

SpecLock == InitIdle /\ [][NextLock]_vars

-----------------------------------------------------------------------------
(* One ship's InputBuffer when frames arrive in any order                  *)

\* The sequence numbers of the frames that arrive: 1 .. MaxSortSeq.
MaxSortSeq == 2

SortSeqs == {U32(n) : n \in 1..MaxSortSeq}

InitSort ==
    /\ sim = GameSimulationNew
    /\ result = <<>>
    /\ fire_log = [p \in PlayerIds |-> <<>>]
    /\ age = EmptyMap
    /\ gone = {}
    /\ fire_held = [p \in PlayerIds |-> FALSE]
    /\ added = [p \in PlayerIds |-> <<>>]
    /\ drained = <<>>
    /\ spawned = [p \in PlayerIds |-> <<>>]
    /\ ib = InputBufferDefault
    /\ ib_panicked = FALSE
    /\ NoRooms
    /\ overflow_checks = FALSE

NextSort ==
    \/ \E q \in SortSeqs : BufAddInput(InputData(q, 0, 0, FALSE, FALSE))
    \/ BufStep

SpecSort == InitSort /\ [][NextSort]_vars

\* The frames of a buffer that carry sequence number q.
Count(buffer, q) == Cardinality({i \in 1..Len(buffer) : buffer[i].sequence = q})

Sorted(buffer) ==
    \A i \in 1..Len(buffer) - 1 : buffer[i].sequence <= buffer[i + 1].sequence

\* The lowest sequence number among the frames of a non-empty buffer.
LowestSequence(buffer) ==
    CHOOSE q \in {buffer[i].sequence : i \in 1..Len(buffer)} :
        \A i \in 1..Len(buffer) : q <= buffer[i].sequence

\* C30: add_input keeps the buffer sorted by sequence number, ascending,
\* whatever the order of arrival (equal sequence numbers included); and an
\* add_input on a full buffer keeps the frames of the buffer and the new one
\* except one frame of the lowest sequence number among them, so the frames
\* kept are the 60 highest.
C30_SortedKeepsHighest ==
    /\ [](Sorted(ib.buffer))
    /\ [][\A q \in SortSeqs :
            BufAddInput(InputData(q, 0, 0, FALSE, FALSE)) =>
                LET all == <<InputData(q, 0, 0, FALSE, FALSE)>> \o ib.buffer
                    dropped == IF Len(ib.buffer) = max_buffer_size
                               THEN {LowestSequence(all)} ELSE {}
                IN /\ Sorted(ib'.buffer)
                   /\ Len(ib'.buffer) = Len(all) - Cardinality(dropped)
                   /\ \A x \in SortSeqs :
                         Count(ib'.buffer, x)
                           = Count(all, x) - (IF x \in dropped THEN 1 ELSE 0)]_vars

\* The buffer is full, holds frames 1 and 2, and frame 2 has arrived before
\* the latest frame 1 did: one more frame 2 pushes a frame 1 out.
C30_Witness ==
    /\ Len(ib.buffer) = max_buffer_size
    /\ Count(ib.buffer, U32(1)) = 2
    /\ Count(ib.buffer, U32(2)) = max_buffer_size - 2
    /\ Count(add_input(ib, InputData(U32(2), 0, 0, FALSE, FALSE)).buffer, U32(1)) = 1

\* C29: a step that begins with a frame of sequence number
\* last_processed_sequence + 1 in the buffer ends with
\* last_processed_sequence at least that number, whatever other frames the
\* buffer holds.
C29_NextFrameConsumed ==
    [][(BufStep /\ Count(ib.buffer, U32WrappingInc(ib.last_processed_sequence)) > 0)
          => ib'.last_processed_sequence >= U32WrappingInc(ib.last_processed_sequence)]_vars

-----------------------------------------------------------------------------
(* The frame a step applies                                                *)

\* The step just taken spawned no projectile for player p.
NoShot(p) == \A i \in 1..Len(fire_log[p]) : fire_log[p][i] # sim.tick - 1

\* C27: the thrust, turn and fire a step applies to a ship are those of the
\* frame get_next_input returned last for that ship in the step's
\* prepare_inputs; when it returned none, thrust 0 and turn 0 are applied and
\* no projectile is fired.
C27_AppliedFrameWasReturned ==
    Len(drained) = 1 =>
        \A p \in PlayerIds :
            drained[1][p] # <<>> =>
                LET r == drained[1][p][1]
                IN IF r.returned = <<>>
                   THEN /\ r.thrust_value = 0
                        /\ r.turn_value = 0
                        /\ ~r.primary_fire
                        /\ NoShot(p)
                   ELSE /\ r.thrust_value = r.returned[1].thrust
                        /\ r.turn_value = r.returned[1].turn
                        /\ r.primary_fire = r.returned[1].primary_fire

\* C28: no frame is applied twice: when a step ends every ship's buffer is
\* empty, and the thrust, turn and fire a step applies are those of a frame
\* given since the step before it - thrust 0, turn 0 and no projectile when
\* none was given.
C28_NoFrameAppliedTwice ==
    Len(drained) = 1 =>
        /\ \A id \in Ships(sim) : sim.world[id].input_buffer.buffer = <<>>
        /\ \A p \in PlayerIds :
              drained[1][p] # <<>> =>
                  LET r == drained[1][p][1]
                  IN IF r.frames = <<>>
                     THEN /\ r.thrust_value = 0
                          /\ r.turn_value = 0
                          /\ ~r.primary_fire
                          /\ NoShot(p)
                     ELSE \E i \in 1..Len(r.frames) :
                              /\ r.thrust_value = r.frames[i].thrust
                              /\ r.turn_value = r.frames[i].turn
                              /\ r.primary_fire = r.frames[i].primary_fire

\* A ship that fired on frame 1 in one step has been stepped again without
\* a new frame.
C28_Witness ==
    /\ Len(drained) = 1
    /\ drained[1][1] # <<>>
    /\ drained[1][1][1].frames = <<>>
    /\ drained[1][1][1].from = U32(1)
    /\ fire_log[1] # <<>>
    /\ sim.tick = IdleTicks + MaxSteps

-----------------------------------------------------------------------------
(* Secondary fire                                                          *)

\* The steps of the runs with secondary fire: past the weapon's cooldown.
MaxSecondarySteps == 4

\* The controls of these runs: full thrust with every combination of the
\* two fire buttons.
ButtonControls ==
    {[thrust |-> 1000, turn |-> 0, primary_fire |-> a, secondary_fire |-> b] :
        a \in BOOLEAN, b \in BOOLEAN}

\* The frames the client of these runs sends next: with the sequence number
\* the ship waits for, or the one before it.
ButtonFrames ==
    LET s == sim.world[Head(ShipIdsFrom(sim, 1, 0))].input_buffer.last_processed_sequence
    IN {InputData(q, c.thrust, c.turn, c.primary_fire, c.secondary_fire) :
           q \in {s, s + 1}, c \in ButtonControls}

\* One ship is given a frame at most between two steps.
NextSecondary ==
    \/ \E input \in ButtonFrames :
          /\ RoomFor(1)
          /\ AddPlayerInput(1, input)
    \/ /\ sim.tick < IdleTicks + MaxSecondarySteps
       /\ Step(DtTick)

SpecSecondary == InitLatest /\ [][NextSecondary]_vars

\* The frame with secondary_fire off.
WithoutSecondary(input) == [input EXCEPT !.secondary_fire = FALSE]

\* The simulation of the run that received the same operations and frames,
\* every frame with secondary_fire off.
Blind(s) ==
    [s EXCEPT !.world =
        [id \in DOMAIN @ |->
            IF @[id].kind = "ship"
            THEN [@[id] EXCEPT !.input_buffer.buffer =
                     [i \in 1..Len(@) |-> WithoutSecondary(@[i])]]
            ELSE @[id]]]

\* C24: secondary fire is accepted and ignored: a run and the run that gets
\* the same operations and frames with secondary_fire off go through
\* simulations that are equal but for the secondary_fire of the frames
\* waiting in the buffers, and every step takes both to the same simulation
\* (entities, forces, projectiles, weapon.last_fire_time, buffers).
C24_SecondaryFireIgnored ==
    /\ step(sim, DtTick) = step(Blind(sim), DtTick)
    /\ \A input \in ButtonFrames :
          Blind(add_player_input(sim, 1, input))
             = add_player_input(Blind(sim), 1, WithoutSecondary(input))
    /\ Blind(spawn_player_ship(sim, 2, SpawnPosition(2)))
          = spawn_player_ship(Blind(sim), 2, SpawnPosition(2))
    /\ \A e \in HandleChoices : Blind(despawn_entity(sim, e)) = despawn_entity(Blind(sim), e)

\* A frame with secondary_fire set and primary_fire off waits in the buffer
\* of a ship that has fired before and whose weapon has cooled down.
C24_Witness ==
    /\ Blind(sim) # sim
    /\ LET c == sim.world[Head(ShipIdsFrom(sim, 1, 0))]
       IN /\ ~Last(c.input_buffer.buffer).primary_fire
          /\ fire_log[1] # <<>>
          /\ CanFire_on_secondary(c, current_time(sim))

-----------------------------------------------------------------------------
(* Two players in one simulation                                           *)

\* The steps of the runs with two players.
MaxPairSteps == 2

\* The controls of these runs: fire while turning, and full thrust.
PairControls == {c \in Controls : c.thrust # PosInf}

\* The components of player p's ship, and its body.
ShipOf(s, p) == s.world[Head(ShipIdsFrom(s, p, 0))]

ShipBodyOf(s, p) == BodyOf(s, Head(ShipIdsFrom(s, p, 0)))

\* The projectiles of player p in s: where they are and how they fly.
ShotsOf(s, p) ==
    {[position |-> s.world[id].transform.position,
      velocity |-> s.world[id].velocity.linear] :
        id \in {i \in Projectiles(s) : s.world[i].projectile.owner_id = p}}

\* The frames player p's client sends next: the frame the ship waits for,
\* with either control.
PairFrames(p) ==
    {InputData(ShipOf(sim, p).input_buffer.last_processed_sequence + 1,
               c.thrust, c.turn, c.primary_fire, c.secondary_fire) : c \in PairControls}

InitPair ==
    /\ sim = spawn_player_ship(
                spawn_player_ship(Idle(GameSimulationNew, IdleTicks), 1, SpawnPosition(1)),
                2, SpawnPosition(2))
    /\ result = <<>>
    /\ fire_log = [p \in PlayerIds |-> <<>>]
    /\ age = EmptyMap
    /\ gone = {}
    /\ fire_held = [p \in PlayerIds |-> FALSE]
    /\ added = [p \in PlayerIds |-> <<>>]
    /\ drained = <<>>
    /\ spawned = [p \in PlayerIds |-> <<SpawnPosition(p)>>]
    /\ ib = InputBufferDefault
    /\ ib_panicked = FALSE
    /\ NoRooms
    /\ overflow_checks = FALSE

\* Each player is given a frame at most between two steps, in either order.
NextPair ==
    \/ \E p \in PlayerIds : \E input \in PairFrames(p) :
          /\ RoomFor(p)
          /\ AddPlayerInput(p, input)
    \/ /\ sim.tick < IdleTicks + MaxPairSteps
       /\ Step(DtTick)

SpecPair == InitPair /\ [][NextPair]_vars

\* C22: two distinct players' frames given between two steps leave the same
\* simulation in either order of delivery (so the next step does too); and a
\* frame given to one player leaves the other player's ship as it was and
\* changes neither the force and torque the next step applies to it, nor
\* its buffer and last_processed_sequence after that step, nor the
\* projectiles the step spawns for it.
C22_PlayersIndependent ==
    /\ \A a \in PairFrames(1), b \in PairFrames(2) :
          add_player_input(add_player_input(sim, 1, a), 2, b)
             = add_player_input(add_player_input(sim, 2, b), 1, a)
    /\ \A p \in PlayerIds, q \in PlayerIds : \A a \in PairFrames(p) :
          p # q =>
             LET s1 == add_player_input(sim, p, a)
             IN /\ ShipOf(s1, q) = ShipOf(sim, q)
                /\ ShipBodyOf(AfterMovement(s1), q).force = ShipBodyOf(AfterMovement(sim), q).force
                /\ ShipBodyOf(AfterMovement(s1), q).torque = ShipBodyOf(AfterMovement(sim), q).torque
                /\ ShipOf(step(s1, DtTick), q).input_buffer
                      = ShipOf(step(sim, DtTick), q).input_buffer
                /\ ShotsOf(step(s1, DtTick), q) = ShotsOf(step(sim, DtTick), q)

\* After a step, player 2's frame with fire and turn waits while player 1
\* has not sent its frame yet.
C22_Witness ==
    /\ sim.tick > IdleTicks
    /\ ShipOf(sim, 1).input_buffer.buffer = <<>>
    /\ Len(ShipOf(sim, 2).input_buffer.buffer) = 1
    /\ ShipOf(sim, 2).input_buffer.buffer[1].primary_fire
    /\ ShipBodyOf(AfterMovement(sim), 2).torque # 0
    /\ ShotsOf(sim, 1) # {}

-----------------------------------------------------------------------------
(* Where the players of a room are spawned                                 *)

\* The connections that join the room, one after the other.
MaxSpawnConns == 5

\* Connections 1, 2, ... join the room in this order, each once, so that
\* connection c is the (c - 1)-th player to join; those that have joined
\* close at any time.
NextSpawn ==
    \/ \E r \in RoomCodes : CreateRoom(r)
    \/ \E c \in 1..MaxSpawnConns, r \in DOMAIN rooms :
          /\ conn[c].reply = ""
          /\ IF c = 1 THEN TRUE ELSE conn[c - 1].reply # ""
          /\ HandleJoin(c, r)
    \/ \E c \in 1..MaxSpawnConns :
          /\ conn[c].reply # ""
          /\ LeaveOrClose(c, "Close")

SpecSpawn == InitIdle /\ [][NextSpawn]_vars

-----------------------------------------------------------------------------
(* The broadcast of snapshots                                              *)

\* The steps of the room in the runs with failing serializations.
MaxCastSteps == 4

\* Two connections join the room and close; the room's task takes its
\* turns, and serde_json::to_vec fails or succeeds on each snapshot.
NextCast ==
    \/ \E r \in RoomCodes : CreateRoom(r)
    \/ \E c \in RoomConns, r \in RoomCodes :
          /\ conn[c].reply = ""
          /\ HandleJoin(c, r)
    \/ \E c \in RoomConns :
          /\ conn[c].reply # ""
          /\ LeaveOrClose(c, "Close")
    \/ \E r \in RoomCodes, serialized \in BOOLEAN :
          RunRoomSimulation(r, MaxCastSteps, serialized)

SpecCast == InitIdle /\ [][NextCast]_vars

\* The turn of the task of room r that steps the room, with the given
\* outcome of the serialization.
CastTurn(r, serialized) ==
    /\ r \in DOMAIN rooms
    /\ DOMAIN rooms[r].players # {}
    /\ RunRoomSimulation(r, MaxCastSteps, serialized)

\* C25: a turn whose serialization fails hands no Snapshot message to any
\* player and still steps the room, whose task goes on; a turn whose
\* serialization succeeds hands out one Snapshot message, with the sequence
\* number of the snapshot just generated, which is larger than every
\* sequence number handed out before; so the sequence numbers of the
\* Snapshot messages of a room increase strictly, and the number of a
\* snapshot that failed to serialize is never sent.
C25_FailedSnapshotSkipped ==
    /\ [][\A r \in RoomCodes :
             /\ CastTurn(r, FALSE)
                   => /\ sent'[r] = sent[r]
                      /\ rooms'[r].simulation.snapshot_sequence
                            = rooms[r].simulation.snapshot_sequence + 1
                      /\ rooms'[r].simulation.tick = rooms[r].simulation.tick + 1
                      /\ task'[r] = "running"
             /\ CastTurn(r, TRUE)
                   => /\ sent'[r] = Append(sent[r], rooms'[r].simulation.snapshot_sequence)
                      /\ \A i \in 1..Len(sent[r]) :
                            sent[r][i] < rooms'[r].simulation.snapshot_sequence]_vars
    /\ [](\A r \in RoomCodes :
             \A i \in 1..Len(sent[r]), j \in 1..Len(sent[r]) :
                i < j => sent[r][i] < sent[r][j])

\* The room's second snapshot failed to serialize; the first and the third
\* were broadcast.
C25_Witness ==
    /\ 1 \in DOMAIN rooms
    /\ rooms[1].simulation.snapshot_sequence = U32(3)
    /\ sent[1] = <<U32(1), U32(3)>>

-----------------------------------------------------------------------------
(* Awaiting without the lock                                               *)

\* C21: a task that is suspended in an await (its process is at "idle":
\* the room's task awaits the tick timer, a connection's task the socket)
\* does not hold the directory lock, whichever path its latest operation
\* took: the exit, the skip of an empty room, the skip of a snapshot that
\* failed to serialize, or the broadcast.
C21_NoLockWhileAwaiting ==
    \A p \in Procs : pc[p] = "idle" => lock # <<p>>

\* The room's task awaits its next tick after a turn that stepped the room
\* and skipped the broadcast, the serialization having failed, while a
\* connection holds the lock inside its leave.
C21_Witness ==
    /\ pc[<<"sim", 1>>] = "idle"
    /\ 1 \in DOMAIN rooms
    /\ rooms[1].simulation.tick = MaxLockSteps
    /\ sent[1] = <<>>
    /\ lock = <<<<"conn", 1>>>>
    /\ pc[<<"conn", 1>>] = "leave_unmap"

-----------------------------------------------------------------------------
(* A ship left alone                                                       *)

\* The ship is given frames before its first MaxThrustSteps steps only ...
MaxThrustSteps == 2

\* ... and is stepped MaxDecaySteps times in all.
MaxDecaySteps == 150

\* The controls of these runs: full thrust, with and without a turn.
ThrustControls ==
    {[thrust |-> 1000, turn |-> t, primary_fire |-> FALSE, secondary_fire |-> FALSE] :
        t \in {0, 1000}}

InitDecay ==
    /\ sim = spawn_player_ship(GameSimulationNew, 1, <<0, 0>>)
    /\ result = <<>>
    /\ fire_log = [p \in PlayerIds |-> <<>>]
    /\ age = EmptyMap
    /\ gone = {}
    /\ fire_held = [p \in PlayerIds |-> FALSE]
    /\ added = [p \in PlayerIds |-> <<>>]
    /\ drained = <<>>
    /\ spawned = [p \in PlayerIds |-> IF p = 1 THEN << <<0, 0>> >> ELSE <<>>]
    /\ ib = InputBufferDefault
    /\ ib_panicked = FALSE
    /\ NoRooms
    /\ overflow_checks = FALSE

\* A ship in the middle of the arena is given a frame, or none, before each
\* of its first steps and none afterwards.
NextDecay ==
    \/ \E c \in ThrustControls :
          /\ sim.tick < MaxThrustSteps
          /\ RoomFor(1)
          /\ AddPlayerInput(1, InputData(ShipOf(sim, 1).input_buffer.last_processed_sequence + 1,
                                         c.thrust, c.turn, c.primary_fire, c.secondary_fire))
    \/ /\ sim.tick < MaxDecaySteps
       /\ Step(DtTick)

SpecDecay == InitDecay /\ [][NextDecay]_vars

\* The square of the magnitude of a velocity.
Norm2(v) == v[1] * v[1] + v[2] * v[2]

-----------------------------------------------------------------------------
(* get_next_input, call by call                                            *)

\* C31: get_next_input returns and removes the front frame and sets
\* last_processed_sequence to its sequence number if and only if the buffer
\* is not empty and the front frame's sequence number is
\* last_processed_sequence + 1; otherwise it returns nothing and leaves the
\* buffer and last_processed_sequence as they were.
C31_GetNextInputHeadOnly ==
    [][BufGetNextInput =>
         LET ready == /\ Len(ib.buffer) > 0
                      /\ ib.last_processed_sequence < U32Max
                      /\ Head(ib.buffer).sequence = ib.last_processed_sequence + 1
         IN /\ ~ib_panicked'
            /\ IF ready
               THEN /\ get_next_input(ib).out = <<Head(ib.buffer)>>
                    /\ ib'.buffer = Tail(ib.buffer)
                    /\ ib'.last_processed_sequence = Head(ib.buffer).sequence
               ELSE /\ get_next_input(ib).out = <<>>
                    /\ ib' = ib]_vars

-----------------------------------------------------------------------------
(* Forces from one step to the next                                        *)

\* The simulation with no user force and no torque left on any body.
WithoutForces(s) ==
    [s EXCEPT !.bodies = [b \in DOMAIN @ |-> [@[b] EXCEPT !.force = <<0, 0>>,
                                                           !.torque = 0]]]

\* C32: the force and torque a step left on a ship's body play no part in
\* the next step: the step takes the simulation where it would take it had
\* the bodies carried no force and no torque; the force on the body after a
\* step is zero exactly when the thrust the step read is zero, the torque
\* zero exactly when the turn it read is zero; and a step for which no frame
\* was given leaves force and torque zero, whatever the step before applied.
C32_ForcesDoNotPersist ==
    /\ [](step(WithoutForces(sim), DtTick) = step(sim, DtTick))
    /\ [][Stepped =>
            LET read == drained'[1][1][1]
                body == ShipBodyOf(sim', 1)
            IN /\ (body.force = <<0, 0>>) <=> (read.thrust_value = 0)
               /\ (body.torque = 0) <=> (read.turn_value = 0)
               /\ added[1] = <<>> => body.force = <<0, 0>> /\ body.torque = 0]_vars

\* The ship was thrust forward while turning in its first step and given no
\* frame for its second: it still moves and turns, with no force and no
\* torque on its body.
C32_Witness ==
    /\ sim.tick = 2
    /\ drained # <<>>
    /\ drained[1][1][1].frames = <<>>
    /\ ShipOf(sim, 1).input_buffer.last_processed_sequence = U32(1)
    /\ ShipOf(sim, 1).velocity.linear # <<0, 0>>
    /\ ShipOf(sim, 1).velocity.angular # 0
    /\ ShipBodyOf(sim, 1).force = <<0, 0>>
    /\ ShipBodyOf(sim, 1).torque = 0

-----------------------------------------------------------------------------
(* The order of the systems inside one step                                *)

\* The steps taken once the ship is there.
MaxPhaseSteps == 4

\* Where the ship is spawned: in the middle of the arena, or 1 px inside
\* the right wall, so that what it fires is spawned beyond the wall.
PhasePositions == {<<0, 0>>, <<959000, 0>>}

\* The controls of these runs: fire and thrust in one frame, with or
\* without a turn, and thrust alone.
PhaseControls ==
    {[thrust |-> 1000, turn |-> 0, primary_fire |-> TRUE, secondary_fire |-> FALSE],
     [thrust |-> 1000, turn |-> 1000, primary_fire |-> TRUE, secondary_fire |-> FALSE],
     [thrust |-> 1000, turn |-> 0, primary_fire |-> FALSE, secondary_fire |-> FALSE]}

InitPhase ==
    /\ \E pos \in PhasePositions :
          /\ sim = spawn_player_ship(Idle(GameSimulationNew, IdleTicks), 1, pos)
          /\ spawned = [p \in PlayerIds |-> IF p = 1 THEN <<pos>> ELSE <<>>]
    /\ result = <<>>
    /\ fire_log = [p \in PlayerIds |-> <<>>]
    /\ age = EmptyMap
    /\ gone = {}
    /\ fire_held = [p \in PlayerIds |-> FALSE]
    /\ added = [p \in PlayerIds |-> <<>>]
    /\ drained = <<>>
    /\ ib = InputBufferDefault
    /\ ib_panicked = FALSE
    /\ NoRooms
    /\ overflow_checks = FALSE

\* The ship is given at most one frame, the next in order, before each step.
NextPhase ==
    \/ \E c \in PhaseControls :
          /\ sim.tick < IdleTicks + MaxPhaseSteps
          /\ RoomFor(1)
          /\ AddPlayerInput(1, InputData(ShipOf(sim, 1).input_buffer.last_processed_sequence + 1,
                                         c.thrust, c.turn, c.primary_fire, c.secondary_fire))
    \/ /\ sim.tick < IdleTicks + MaxPhaseSteps
       /\ Step(DtTick)

SpecPhase == InitPhase /\ [][NextPhase]_vars

\* A position after one step of DtTick at the given velocity, clamped.
Flown(position, velocity, bounds) ==
    ClampedPosition(<<FAdd(position[1], FMulQ(velocity[1], Millis(DtTick), 1000)),
                      FAdd(position[2], FMulQ(velocity[2], Millis(DtTick), 1000))>>,
                    bounds)

\* C33: a step that finds a frame with primary_fire and thrust, the cooldown
\* having passed at the time of the tick before its increment, spawns one
\* projectile 15 px in front of where the ship was before physics moved it
\* and leaves the thrust force, along the ship's heading before the step, on
\* the ship's body; within the same step the projectile is moved by
\* physics, aged by dt, clamped to the arena and listed in the snapshot the
\* step returns with the tick after the increment; projectiles already
\* flying are moved, then aged, then clamped likewise; the ship's buffer is
\* empty afterwards.
C33_PhaseOrder ==
    [][Stepped =>
         LET c0 == ShipOf(sim, 1)
             read == drained'[1][1][1]
             r == c0.transform.rotation
             fires == /\ read.primary_fire
                      /\ ElapsedAtLeast(sim.tick - c0.weapon.last_fire_time, c0.weapon.cooldown)
             new == {id \in Projectiles(sim') : ~Contains(sim, EntityOf(sim', id))}
             old == {id \in Projectiles(sim') : Contains(sim, EntityOf(sim', id))}
             muzzle == <<FAdd(c0.transform.position[1], Cos1000(r) * 15),
                         FAdd(c0.transform.position[2], Sin1000(r) * 15)>>
             snapshot == result'[1].snapshot[1]
             Listed(id) == \E k \in 1..Len(snapshot.entities) :
                              /\ snapshot.entities[k].entity_id = id
                              /\ snapshot.entities[k].transform = sim'.world[id].transform
         IN /\ Cardinality(new) = IF fires THEN 1 ELSE 0
            /\ \A id \in new :
                  /\ sim'.world[id].projectile.owner_id = 1
                  /\ sim'.world[id].transform.position
                        = Flown(muzzle, <<Cos1000(r) * 300, Sin1000(r) * 300>>, sim.bounds)
                  /\ sim'.world[id].lifetime.remaining = F32Sub(ProjectileLifetime, DtTick)
                  /\ Listed(id)
            /\ \A id \in old :
                  /\ sim'.world[id].transform.position
                        = Flown(BodyOf(sim, id).translation, BodyOf(sim, id).linvel, sim.bounds)
                  /\ sim'.world[id].lifetime.remaining
                        = F32Sub(sim.world[id].lifetime.remaining, DtTick)
                  /\ Listed(id)
            /\ fires => ShipOf(sim', 1).weapon.last_fire_time = sim.tick
            /\ read.thrust_value # 0 =>
                  ShipBodyOf(sim', 1).force
                     = <<FMulMilli(Cos1000(r) * c0.ship.thrust_power, read.thrust_value),
                         FMulMilli(Sin1000(r) * c0.ship.thrust_power, read.thrust_value)>>
            /\ ShipOf(sim', 1).input_buffer.buffer = <<>>
            /\ snapshot.tick = sim.tick + 1]_vars

\* The ship, 1 px inside the right wall, has fired and thrust in one step:
\* its projectile, spawned beyond the wall, is on the wall in the snapshot
\* of that very step, one dt old, and the thrust force is on the ship's body.
C33_Witness ==
    /\ Len(result) = 1
    /\ drained[1][1][1].primary_fire
    /\ drained[1][1][1].thrust_value = 1000
    /\ ShipBodyOf(sim, 1).force # <<0, 0>>
    /\ \E id \in Projectiles(sim) :
          /\ sim.world[id].transform.position[1] = 960000
          /\ sim.world[id].lifetime.remaining = F32Sub(ProjectileLifetime, DtTick)
          /\ \E k \in 1..Len(result[1].snapshot[1].entities) :
                result[1].snapshot[1].entities[k].entity_id = id

-----------------------------------------------------------------------------
(* The Velocity component and the body's velocity                          *)

\* C34: when step returns, the Velocity component of every entity with a
\* physics body, and the velocity listed for it in the snapshot, are the
\* linear and angular velocity of that body.
C34_VelocityMirrored ==
    Len(result) = 1 =>
        \A id \in DOMAIN sim.world :
            HasBody(sim, id) =>
                /\ sim.world[id].velocity.linear = BodyOf(sim, id).linvel
                /\ sim.world[id].velocity.angular = BodyOf(sim, id).angvel
                /\ \A k \in 1..Len(result[1].snapshot[1].entities) :
                      result[1].snapshot[1].entities[k].entity_id = id =>
                          /\ result[1].snapshot[1].entities[k].velocity.linear
                                = BodyOf(sim, id).linvel
                          /\ result[1].snapshot[1].entities[k].velocity.angular
                                = BodyOf(sim, id).angvel

-----------------------------------------------------------------------------
(* The lifetime system                                                     *)

\* The projectiles the ship fires ...
MaxLifeShots == 1

\* ... and the steps taken once the ship is there.
MaxLifeSteps == 47

\* The ship fires within its first steps (four for every projectile), and
\* is stepped until its projectiles have expired.
NextLifetime ==
    \/ /\ RoomFor(1)
       /\ Len(fire_log[1]) < MaxLifeShots
       /\ sim.tick < IdleTicks + 4 * MaxLifeShots
       /\ AddPlayerInput(1, InputData(ShipOf(sim, 1).input_buffer.last_processed_sequence + 1,
                                      0, 0, TRUE, FALSE))
    \/ /\ sim.tick < IdleTicks + MaxLifeSteps
       /\ Step(DtTick)

SpecLifetime == InitPhase /\ [][NextLifetime]_vars

-----------------------------------------------------------------------------
(* The health system on a ship that has taken damage                       *)

\* The steps taken: beyond the recharge delay of 3 s (45 ticks).
MaxHealthSteps == 50

\* The tick at which the latest damage was taken, when not at tick 0.
DamageTick == 3

\* The Health of the ship at the start: the world is a public field, and
\* whoever deals damage leaves a shield below shield_max (empty, or within
\* one step's recharge of full), a current below max and a last_damage_time.
DamagedHealth ==
    {[HealthDefault EXCEPT !.shield = shield, !.current = current, !.last_damage_time = t] :
        shield \in {0, 49500, 50000}, current \in {40000, 100000}, t \in {0, DamageTick}}

InitHealth ==
    /\ \E health \in DamagedHealth :
          sim = LET s == spawn_player_ship(GameSimulationNew, 1, <<0, 0>>)
                IN [s EXCEPT !.world[Head(ShipIdsFrom(s, 1, 0))].health = health]
    /\ spawned = [p \in PlayerIds |-> IF p = 1 THEN << <<0, 0>> >> ELSE <<>>]
    /\ result = <<>>
    /\ fire_log = [p \in PlayerIds |-> <<>>]
    /\ age = EmptyMap
    /\ gone = {}
    /\ fire_held = [p \in PlayerIds |-> FALSE]
    /\ added = [p \in PlayerIds |-> <<>>]
    /\ drained = <<>>
    /\ ib = InputBufferDefault
    /\ ib_panicked = FALSE
    /\ NoRooms
    /\ overflow_checks = FALSE

NextHealth ==
    /\ sim.tick < MaxHealthSteps
    /\ Step(DtTick)

SpecHealth == InitHealth /\ [][NextHealth]_vars

\* C36: a step changes nothing of a Health but the shield; the shield never
\* decreases; it increases only in a step whose time (the tick before the
\* increment, in fifteenths of a second) is at least shield_recharge_delay
\* after last_damage_time and that finds it below shield_max; and it never
\* exceeds shield_max afterwards.
C36_HealthSystem ==
    [][Stepped =>
         LET health == ShipOf(sim, 1).health
             after == ShipOf(sim', 1).health
         IN /\ [after EXCEPT !.shield = health.shield] = health
            /\ after.shield >= health.shield
            /\ after.shield <= health.shield_max
            /\ after.shield > health.shield =>
                  /\ (sim.tick - health.last_damage_time) * health.shield_recharge_delay.den
                        >= SIM_TICK_RATE * health.shield_recharge_delay.num
                  /\ health.shield < health.shield_max]_vars

\* The empty shield of a ship damaged at tick 3 has started to recharge in
\* the step of tick 48, the first at least 3 s later.
C36_Witness ==
    /\ Len(result) = 1
    /\ sim.tick = DamageTick + 46
    /\ ShipOf(sim, 1).health.last_damage_time = DamageTick
    /\ ShipOf(sim, 1).health.shield > 0
    /\ ShipOf(sim, 1).health.shield < 49500

-----------------------------------------------------------------------------
(* Connections that send Join more than once                               *)

\* The ships a room's simulation has spawned when no further Join is sent.
MaxRejoinShips == 3

\* The cleanup task's timer fires this many times in these runs.
MaxRejoinCleanups == 3

\* The connections of these runs.
RejoinConns == {1, 2}

\* The room codes a client sends in a Join: the codes create_room hands out,
\* and one that names no room.
JoinCodes == RoomCodes \cup {Cardinality(RoomCodes) + 1}

\* Two connections send Join at any time and any number of times, with the
\* code of the room or with a code that names no room, and Leave or close at
\* any time; the cleanup task runs every CleanupInterval seconds.
NextRejoin ==
    \/ \E r \in RoomCodes : CreateRoom(r)
    \/ \E c \in RejoinConns, r \in JoinCodes :
          /\ r \in DOMAIN rooms =>
                /\ NextEntity(rooms[r].simulation)[1] < MaxRejoinShips
                /\ NextEntity(rooms[r].simulation)[2] <= MaxGeneration
          /\ HandleJoin(c, r)
    \/ \E c \in RejoinConns, message \in {"Leave", "Close"} : LeaveOrClose(c, message)
    \/ /\ clock < MaxRejoinCleanups * CleanupInterval
       /\ CleanupRoomsTask

SpecRejoin == InitIdle /\ [][NextRejoin]_vars

\* C37: in every room the players and the player_entities have the same
\* keys, every mapped entity is a live ship of the room's simulation, the
\* simulation has as many ships as the room has players, and no two ships
\* carry the same player id.
C37_RoomMatchesSimulation ==
    \A r \in DOMAIN rooms :
        LET room == rooms[r]
            s == room.simulation
        IN /\ DOMAIN room.player_entities = DOMAIN room.players
           /\ \A c \in DOMAIN room.player_entities :
                 /\ Contains(s, room.player_entities[c])
                 /\ s.world[room.player_entities[c][1]].kind = "ship"
           /\ Cardinality(Ships(s)) = Cardinality(DOMAIN room.players)
           /\ \A a, b \in Ships(s) :
                 a # b => s.world[a].player.id # s.world[b].player.id

\* C38: a connection's player is a player of no room but the connection's
\* current room, and once the receive loop has ended and cleaned up, the
\* player is a player of no room and has no ship in any simulation.
C38_SingleRoomMembership ==
    \A c \in Conns :
        /\ \A r \in DOMAIN rooms :
              c \in DOMAIN rooms[r].players => conn[c].current_room = <<r>>
        /\ conn[c].status = "closed" =>
              \A r \in DOMAIN rooms :
                  /\ c \notin DOMAIN rooms[r].players
                  /\ ShipIdsFrom(rooms[r].simulation, c, 0) = <<>>

-----------------------------------------------------------------------------
(* Debug render requests                                                   *)

\* GameSimulation::generate_debug_render_data (&self): the snapshot sequence
\* and the rigid bodies of the physics world.
generate_debug_render_data(s) ==
    [sequence |-> s.snapshot_sequence,
     rigid_bodies |->
        {[handle |-> h,
          position |-> s.bodies[h].translation,
          rotation |-> s.bodies[h].rotation,
          body_type |-> s.bodies[h].body_type,
          mass |-> s.bodies[h].mass,
          linear_damping |-> s.bodies[h].linear_damping,
          angular_damping |-> s.bodies[h].angular_damping] : h \in DOMAIN s.bodies}]

\* handle_socket on ClientMessage::RequestDebugRender: handle_debug_request
\* when the connection has a current room.  The event carries the
\* DebugRender data handed to the requesting player's sender, if any.
HandleDebugRequest(c) ==
    /\ conn[c].status = "open"
    /\ conn[c].current_room # <<>>
    /\ LET r == conn[c].current_room[1]
       IN Directory(Event("debug", c,
                          IF r \in DOMAIN rooms /\ c \in DOMAIN rooms[r].players
                          THEN <<generate_debug_render_data(rooms[r].simulation)>>
                          ELSE <<>>),
                    rooms, clock, {})
    /\ conn' = [conn EXCEPT ![c].last_message = clock]
    /\ UNCHANGED <<clock, task, lock, pc, simVars, bufVars, sent>>

\* The steps of the room whose players ask for debug data.
MaxDebugSteps == 4

\* Two connections join the room, ask for debug render data at any time
\* and close; the room's task takes its turns.
NextDebug ==
    \/ \E r \in RoomCodes : CreateRoom(r)
    \/ \E c \in RoomConns, r \in RoomCodes :
          /\ conn[c].reply = ""
          /\ HandleJoin(c, r)
    \/ \E c \in RoomConns :
          /\ conn[c].reply # ""
          /\ LeaveOrClose(c, "Close")
    \/ \E c \in RoomConns : HandleDebugRequest(c)
    \/ \E r \in RoomCodes, serialized \in BOOLEAN :
          RunRoomSimulation(r, MaxDebugSteps, serialized)

SpecDebug == InitIdle /\ [][NextDebug]_vars

\* The turn of the task of room r that calls step.
DebugTurn(r) ==
    /\ r \in DOMAIN rooms
    /\ DOMAIN rooms[r].players # {}
    /\ \E serialized \in BOOLEAN : RunRoomSimulation(r, MaxDebugSteps, serialized)

\* C39: in every state of every room's simulation snapshot_sequence equals
\* tick; a new simulation has tick 0, a call of step adds 1 to tick and
\* nothing else changes it, so the snapshot of every state carries
\* sequence = tick = the number of steps made so far; and
\* generate_debug_render_data reports that same sequence and leaves the
\* room and its simulation as they were.
C39_SequenceIsTick ==
    /\ [](\A r \in DOMAIN rooms :
             LET s == rooms[r].simulation
             IN /\ s.snapshot_sequence = U32(s.tick)
                /\ generate_snapshot(s).sequence = U32(generate_snapshot(s).tick)
                /\ generate_debug_render_data(s).sequence = U32(s.tick))
    /\ [][\A r \in RoomCodes :
             /\ (r \notin DOMAIN rooms /\ r \in DOMAIN rooms')
                   => rooms'[r].simulation.tick = 0
             /\ (r \in DOMAIN rooms /\ r \in DOMAIN rooms')
                   => rooms'[r].simulation.tick
                         = rooms[r].simulation.tick + (IF DebugTurn(r) THEN 1 ELSE 0)]_vars
    /\ [][\A c \in RoomConns :
             HandleDebugRequest(c)
                => /\ rooms' = rooms
                   /\ sent' = sent
                   /\ event'.data # <<>>
                         => event'.data[1].sequence
                               = U32(rooms[conn[c].current_room[1]].simulation.tick)]_vars

\* A player of a room that has been stepped three times and holds two ships
\* has just been handed debug render data: sequence 3, two rigid bodies.
C39_Witness ==
    /\ event.op = "debug"
    /\ event.data # <<>>
    /\ event.data[1].sequence = U32(3)
    /\ Cardinality(event.data[1].rigid_bodies) = 2
    /\ rooms[conn[event.conn].current_room[1]].simulation.tick = 3

-----------------------------------------------------------------------------
(* The input buffers when step returns                                     *)

\* The steps of these runs, the sequence numbers of the frames (1 ..
\* MaxClearSeq) and the frames a buffer holds at most between two steps.
MaxClearSteps == 2

MaxClearSeq == 3

MaxClearPending == 2

\* Two ships are spawned before the first of these steps and the second
\* may be despawned at any time; frames with any
\* of the sequence numbers are given to the first in any order between
\* steps, so that a step finds frames in order, ahead of a gap, or stale,
\* and the second is given the frame it waits for.
NextClear ==
    \/ \E p \in PlayerIds :
          /\ sim.tick = IdleTicks
          /\ ShipIdsFrom(sim, p, 0) = <<>>
          /\ NextEntity(sim)[2] <= MaxGeneration
          /\ SpawnPlayerShip(p, SpawnPosition(p))
    \/ /\ ShipIdsFrom(sim, 2, 0) # <<>>
       /\ DespawnEntity(EntityOf(sim, Head(ShipIdsFrom(sim, 2, 0))))
    \/ \E q \in 1..MaxClearSeq :
          /\ ShipIdsFrom(sim, 1, 0) # <<>>
          /\ Len(sim.world[Head(ShipIdsFrom(sim, 1, 0))].input_buffer.buffer)
                < MaxClearPending
          /\ AddPlayerInput(1, InputData(U32(q), 0, 0, FALSE, FALSE))
    \/ /\ ShipIdsFrom(sim, 2, 0) # <<>>
       /\ sim.world[Head(ShipIdsFrom(sim, 2, 0))].input_buffer.buffer = <<>>
       /\ AddPlayerInput(2, InputData(NextSequence(2), 0, 0, FALSE, FALSE))
    \/ /\ sim.tick < IdleTicks + MaxClearSteps
       /\ Step(DtTick)

SpecClear == Init /\ [][NextClear]_vars

\* C40: when step returns the input buffer of every live ship is empty,
\* whatever frames the step found in it (in order, ahead of a gap, or not
\* above last_processed_sequence); and between two steps the buffer of a
\* ship holds the frames given to the ship since the latest step (or since
\* it was spawned) and no others.
C40_BuffersEmptyAfterStep ==
    /\ [][Stepped =>
            \A id \in Ships(sim') :
               /\ id \in Ships(sim)
               /\ sim'.world[id].input_buffer.buffer = <<>>]_vars
    /\ [](\A p \in PlayerIds :
             ShipIdsFrom(sim, p, 0) # <<>> =>
                LET b == sim.world[Head(ShipIdsFrom(sim, p, 0))].input_buffer.buffer
                IN /\ Len(b) = Len(added[p])
                   /\ \A q \in 1..MaxClearSeq :
                         Count(b, U32(q)) = Count(added[p], U32(q)))

\* A step has just returned.  It found frame 2 for player 2's ship, which
\* had consumed frame 1 (in order), and for player 1's ship, which had
\* consumed frame 1, an older frame 1 again and frame 3 (ahead of a gap);
\* both buffers are empty.
C40_Witness ==
    /\ Len(drained) = 1
    /\ drained[1][1] # <<>>
    /\ drained[1][1][1].from = U32(1)
    /\ drained[1][1][1].frames = <<InputData(U32(3), 0, 0, FALSE, FALSE),
                                   InputData(U32(1), 0, 0, FALSE, FALSE)>>
    /\ drained[1][2] # <<>>
    /\ drained[1][2][1].from = U32(1)
    /\ Len(drained[1][2][1].frames) = 1
    /\ sim.world[Head(ShipIdsFrom(sim, 2, 0))].input_buffer.last_processed_sequence = U32(2)
    /\ sim.world[Head(ShipIdsFrom(sim, 1, 0))].input_buffer.last_processed_sequence = U32(1)
    /\ \A id \in Ships(sim) : sim.world[id].input_buffer.buffer = <<>>

====
